---- MODULE Spec2Model ----
(***************************************************************************)
(* Model of the API gateway of the RAG system: the in-memory result cache  *)
(* (services/cacheService.js), the request handlers of the controller      *)
(* (controllers/ragController.js), the retrieval client                    *)
(* (services/retrievalService.js) and the result curator                   *)
(* (services/queryProcessor.js).                                           *)
(*                                                                         *)
(* JavaScript runs every synchronous stretch of a handler to completion,   *)
(* so one action is one such stretch: from the start of a handler, or from *)
(* the resumption after an await on real I/O, up to the next such await.   *)
(* Timer callbacks are macrotasks of the runtime: setTimeout only promises *)
(* that a callback does not run before its delay has passed.               *)
(***************************************************************************)
EXTENDS Integers, Sequences, FiniteSets, TLC

VARIABLES
  memoryCache,    \* cacheService.js: const memoryCache = new Map()
  cacheTimeouts,  \* cacheService.js: const cacheTimeouts = new Map()
  timers,         \* the runtime's pending setTimeout timers
  last,           \* history: the last cache operation and what it returned
  written,        \* history: per stored key, the write that produced the entry
  req,            \* the requests in flight: where each handler is waiting
  out,            \* history: the request that was answered last, and its answer
  call            \* a function of the code called on its own: argument and result

vars == <<memoryCache, cacheTimeouts, timers, last, written, req, out, call>>

(***************************************************************************)
(* JavaScript values.                                                      *)
(***************************************************************************)
Null == [t |-> "null"]
Undefined == [t |-> "undefined"]
Str(s) == [t |-> "string", v |-> s]
\* a string that the code measures, trims, converts or searches: its tokens
Text(s) == [t |-> "string", s |-> s]
\* a number that may have a fraction: its whole part and its thousandths
Decimal(n, frac) == [t |-> "number", n |-> n, frac |-> frac]
Bool(b) == [t |-> "boolean", b |-> b]
\* an exception on its way up the stack
Thrown == [t |-> "thrown"]

\* the values JavaScript treats as false in a condition and in a || b (NaN,
\* the one other such value, is not a value of the model)
Falsy == {Null, Undefined, Str(""), Text(<<>>), [t |-> "number", n |-> 0], Decimal(0, 0),
          Bool(FALSE)}
Truthy(x) == x \notin Falsy
\* a plausible slip: the default after || is never taken
FirstOperand(a, b) == a
JsOr(a, b) == IF Truthy(a) THEN a ELSE b

\* Map: a function whose domain is the set of keys present
EmptyMap == [k \in {} |-> Null]
MapHas(m, k) == k \in DOMAIN m
MapGet(m, k) == IF k \in DOMAIN m THEN m[k] ELSE Undefined
MapSet(m, k, v) == [j \in (DOMAIN m) \cup {k} |-> IF j = k THEN v ELSE m[j]]
MapDelete(m, k) == [j \in (DOMAIN m) \ {k} |-> m[j]]

(***************************************************************************)
(* Bounds and inputs.                                                      *)
(***************************************************************************)
NumReqs == 2             \* requests in flight at once
TickMs == 300 * 1000     \* the clock advances in steps of 300 s
MaxResults == 3          \* results in a list drawn freely from a pool
MaxWords == 12           \* words in a query drawn freely

\* a query is its sequence of tokens: words and runs of whitespace
QShort == <<"install", " ", "api">>
QLong == <<"how", " ", "do", " ", "i", " ", "fix", " ", "an", " ", "error", " ",
           "in", " ", "the", " ", "config", " ", "file", " ", "today">>

SearchKey(query, top_k) == <<"search", query, top_k>>
LlmKey(query, top_k) == <<"llm", query, top_k>>
DocChunksKey(documentId) == <<"doc_chunks", documentId>>

DocIds == {"d1"}
ApiKeys == {SearchKey(QShort, 5), DocChunksKey("d1")}
\* what a caller of cacheResult stores: a payload and a ttl in seconds
CacheWrites == {[value |-> Str(""), ttl |-> 300], [value |-> Str("v1"), ttl |-> 0],
                [value |-> Str("v2"), ttl |-> 600]}

(***************************************************************************)
(* The runtime's timers.  A timer is [id, key, remaining]: remaining is    *)
(* the time in ms until it is due; a negative remaining is a timer whose   *)
(* callback is overdue (the event loop has not run it yet).                *)
(***************************************************************************)
\* setTimeout's delay: a delay outside 1..2^31-1 ms is replaced by 1 ms
SetTimeoutDelay(ms) == IF ms < 1 \/ ms > 2147483647 THEN 1 ELSE ms

\* clearTimeout(timeoutId)
ClearTimeout(tm, id) == {t \in tm : t.id # id}

TimersOf(tm, key) == {t \in tm : t.key = key}
LiveIds(tm) == {t.id : t \in tm}

(***************************************************************************)
(* CacheService.  S is the state [mc, ct, tm] of the two maps and the      *)
(* runtime's timers.                                                       *)
(***************************************************************************)
CS == [mc |-> memoryCache, ct |-> cacheTimeouts, tm |-> timers]

\* a plausible slip: the map entry is dropped but the timer is not cleared
LeakExpired(S, key) ==
  IF MapHas(S.ct, key) THEN [S EXCEPT !.ct = MapDelete(@, key)] ELSE S

_clearExpired(S, key) ==
  IF MapHas(S.ct, key)
    THEN [S EXCEPT !.tm = ClearTimeout(@, S.ct[key]), !.ct = MapDelete(@, key)]
    ELSE S

\* setTimeout returns a new Timeout object, which differs from every Timeout
\* that is pending when it is created (a cancelled one is pending no more):
\* it is named by its key and the least number that no pending timer of
\* that key carries
FreshId(S, key) ==
  <<key, CHOOSE n \in 0..Cardinality(S.tm) :
           /\ <<key, n>> \notin LiveIds(S.tm)
           /\ \A m \in 0..(n - 1) : <<key, m>> \in LiveIds(S.tm)>>

\* a plausible slip: the entry is replaced without cancelling the old timer
SetWithoutClear(S, key, value, ttl) ==
  LET timeoutId == FreshId(S, key)
  IN  [mc |-> MapSet(S.mc, key, value),
       ct |-> MapSet(S.ct, key, timeoutId),
       tm |-> S.tm \cup {[id |-> timeoutId, key |-> key,
                          remaining |-> SetTimeoutDelay(ttl * 1000)]}]

_setCacheWithExpiration(S, key, value, ttl) ==
  LET S1 == _clearExpired(S, key)
      timeoutId == FreshId(S1, key)
  IN  [mc |-> MapSet(S1.mc, key, value),
       ct |-> MapSet(S1.ct, key, timeoutId),
       tm |-> S1.tm \cup {[id |-> timeoutId, key |-> key,
                           remaining |-> SetTimeoutDelay(ttl * 1000)]}]

_getCache(S, key) == JsOr(MapGet(S.mc, key), Null)

\* a plausible slip: the entry is removed but its timer is left pending
DeleteKeepTimer(S, key) ==
  [state |-> [S EXCEPT !.mc = MapDelete(@, key)], ret |-> MapHas(S.mc, key)]

\* a plausible slip: the timer is cancelled but the entry stays
DeleteTimerOnly(S, key) ==
  [state |-> _clearExpired(S, key), ret |-> MapHas(S.mc, key)]

\* the new state and the value returned (Map.delete: was the key present)
_deleteCache(S, key) ==
  LET S1 == _clearExpired(S, key)
  IN  [state |-> [S1 EXCEPT !.mc = MapDelete(@, key)], ret |-> MapHas(S1.mc, key)]

\* a plausible slip: the callback forgets the entry itself
CallbackKeepsEntry(S, t) ==
  [mc |-> S.mc,
   ct |-> MapDelete(S.ct, t.key),
   tm |-> S.tm \ {t}]

\* the callback given to setTimeout in _setCacheWithExpiration
TimerCallback(S, t) ==
  [mc |-> MapDelete(S.mc, t.key),
   ct |-> MapDelete(S.ct, t.key),
   tm |-> S.tm \ {t}]


SetState(S) ==
  /\ memoryCache' = S.mc
  /\ cacheTimeouts' = S.ct
  /\ timers' = S.tm

\* is it now later than the expiration instant (write time + ttl) of key's entry
PastExpiration(key) == MapHas(written, key) /\ written[key].age > written[key].ttlMs

\* ret is the value a get returned, flag the boolean a set or delete returned
NoKey == <<"none">>
NoTimer == <<NoKey, 0>>
NoOp == [op |-> "init", key |-> NoKey, ret |-> Null,
         flag |-> FALSE, timer |-> NoTimer, overdue |-> FALSE, had |-> FALSE]

Reqs == 1..NumReqs

\* a handler that is not running, and the empty history of answers
Idle == [pc |-> "idle"]
NoOut == [status |-> 0]
NoCall == [fn |-> "none"]

(***************************************************************************)
(* Operations of the cache, as the callers reach them.                     *)
(***************************************************************************)
\* history of a write: the value, the ttl asked for (ms), the timer that
\* belongs to it, the time that has passed since, and, for a call of
\* cacheResult by a caller other than the handlers, the time the timer of
\* the entry it replaced had left (0: it replaced none)
PendingLeft(key) ==
  IF \E t \in timers : t.key = key /\ t.remaining > 0
    THEN (CHOOSE t \in timers : t.key = key /\ t.remaining > 0).remaining
    ELSE 0

Write(value, ttl, id, prevLeft) ==
  [value |-> value, ttlMs |-> ttl * 1000, id |-> id, age |-> 0,
   prevLeft |-> prevLeft]

\* ages more than one tick beyond the ttl are not told apart
Older(w) == [w EXCEPT !.age = IF @ + TickMs > w.ttlMs + TickMs
                                 THEN w.ttlMs + TickMs ELSE @ + TickMs]

\* ttl || 600
TtlOrDefault(ttl) == IF ttl # 0 THEN ttl ELSE 600

\* a plausible slip: a key that has an entry keeps it (the first write wins)
CacheWriteIfAbsent(key, value, ttl) ==
  IF MapHas(memoryCache, key)
    THEN UNCHANGED <<memoryCache, cacheTimeouts, timers, written>>
    ELSE /\ SetState(_setCacheWithExpiration(CS, key, value, TtlOrDefault(ttl)))
         /\ written' = MapSet(written, key, Write(value, TtlOrDefault(ttl), cacheTimeouts'[key], 0))

\* the trace a write of key leaves among the operations of the cache
SetTrace(key) ==
  [NoOp EXCEPT !.op = "set", !.key = key, !.flag = TRUE,
               !.timer = cacheTimeouts'[key], !.had = MapHas(memoryCache, key)]

\* the body of cacheResult: the write and its history
CacheWriteOver(key, value, ttl, prevLeft) ==
  /\ SetState(_setCacheWithExpiration(CS, key, value, TtlOrDefault(ttl)))
  /\ written' = MapSet(written, key, Write(value, TtlOrDefault(ttl), cacheTimeouts'[key], prevLeft))

\* cacheResult as the handlers call it
CacheWrite(key, value, ttl) == CacheWriteOver(key, value, ttl, 0)

\* async cacheResult(key, value, ttl), called on its own
cacheResult(key, value, ttl) ==
  /\ CacheWriteOver(key, value, ttl, PendingLeft(key))
  /\ last' = SetTrace(key)

\* async getCachedResult(key)
getCachedResult(key) ==
  LET cachedValue == _getCache(CS, key)
  IN  /\ last' = [NoOp EXCEPT !.op = "get", !.key = key,
                              !.ret = IF Truthy(cachedValue) THEN cachedValue ELSE Null,
                              !.overdue = PastExpiration(key),
                              !.had = MapHas(memoryCache, key)]
      /\ UNCHANGED <<memoryCache, cacheTimeouts, timers, written>>

\* a plausible slip: the invalidation of a document empties the cache
InvalidateEverything(documentId) ==
  /\ memoryCache' = EmptyMap
  /\ cacheTimeouts' = EmptyMap
  /\ timers' = {}
  /\ written' = EmptyMap
  /\ last' = [NoOp EXCEPT !.op = "delete", !.key = DocChunksKey(documentId),
                          !.flag = MapHas(memoryCache, DocChunksKey(documentId)),
                          !.had = MapHas(memoryCache, DocChunksKey(documentId))]

\* async invalidateDocumentCache(documentId)
invalidateDocumentCache(documentId) ==
  LET cacheKey == DocChunksKey(documentId)
      d == _deleteCache(CS, cacheKey)
  IN  /\ SetState(d.state)
      /\ last' = [NoOp EXCEPT !.op = "delete", !.key = cacheKey, !.flag = d.ret,
                              !.had = MapHas(memoryCache, cacheKey)]
      /\ written' = MapDelete(written, cacheKey)

\* the event loop runs the callback of a timer that is due
RunTimer(id) ==
  \E t \in timers :
    /\ t.id = id
    /\ t.remaining <= 0
    /\ SetState(TimerCallback(CS, t))
    /\ written' = MapDelete(written, t.key)

\* the same, with its trace among the operations of the cache
FireTimer(id) ==
  /\ RunTimer(id)
  /\ \E t \in timers :
       /\ t.id = id
       /\ last' = [NoOp EXCEPT !.op = "fire", !.key = t.key, !.timer = t.id,
                               !.had = MapHas(memoryCache, t.key)]

\* time passes; a timer that is due need not have run yet
Elapse ==
  /\ timers' = {[t EXCEPT !.remaining =
                   IF @ - TickMs < 0 - TickMs THEN 0 - TickMs ELSE @ - TickMs] : t \in timers}
  /\ written' = [k \in DOMAIN written |-> Older(written[k])]
  /\ timers' # timers
  /\ UNCHANGED <<memoryCache, cacheTimeouts>>

Tick == Elapse /\ last' = [NoOp EXCEPT !.op = "tick"]

\* the two as the handlers meet them: between the steps of the requests
Expire(id) == RunTimer(id) /\ last' = NoOp /\ out' = NoOut /\ UNCHANGED <<req, call>>
Pass == Elapse /\ last' = NoOp /\ out' = NoOut /\ UNCHANGED <<req, call>>

CacheInit ==
  /\ memoryCache = EmptyMap
  /\ cacheTimeouts = EmptyMap
  /\ timers = {}
  /\ last = NoOp
  /\ written = EmptyMap
  /\ req = [r \in Reqs |-> Idle]
  /\ out = NoOut
  /\ call = NoCall

(***************************************************************************)
(* Data of a request.  A string that the code takes apart (a query, a      *)
(* content) is its sequence of tokens: words, runs of whitespace and       *)
(* punctuation marks.  A score is in thousandths (0.1 is 100).             *)
(***************************************************************************)
IsSpace(tok) == tok = " "

\* String.prototype.trim
RECURSIVE TrimLeft(_)
TrimLeft(q) == IF q # <<>> /\ IsSpace(Head(q)) THEN TrimLeft(Tail(q)) ELSE q
RECURSIVE TrimRight(_)
TrimRight(q) ==
  IF q # <<>> /\ IsSpace(q[Len(q)]) THEN TrimRight(SubSeq(q, 1, Len(q) - 1)) ELSE q
Trim(q) == TrimRight(TrimLeft(q))

\* query.split(/\s+/).length: one piece more than there are runs of whitespace
SplitCount(q) == Cardinality({i \in DOMAIN q : IsSpace(q[i])}) + 1

\* obj?.f of an object that may be missing; a missing field is undefined
Field(obj, f) ==
  IF obj = Undefined \/ obj = Null THEN Undefined
  ELSE IF f \in DOMAIN obj THEN obj[f] ELSE Undefined

\* const { f = d } = body
Default(body, f, d) == IF f \in DOMAIN body THEN body[f] ELSE d

SeqMap(Op(_), sq) == [i \in DOMAIN sq |-> Op(sq[i])]
Max(S) == CHOOSE x \in S : \A y \in S : y <= x
Min(S) == CHOOSE x \in S : \A y \in S : x <= y

\* raw results as the retrieval backend returns them
RawA1 == [chunk_id |-> "c1", content |-> <<"install", " ", "the", " ", "api">>,
          similarity_score |-> 900, document_id |-> Str("docA"),
          metadata |-> [source_file |-> Str("a.md")]]
RawA2 == [chunk_id |-> "c2", content |-> <<"Install", " ", "the", " ", "API", ".">>,
          similarity_score |-> 800, document_id |-> Str("docA"),
          metadata |-> [source_file |-> Str("a.md")]]
RawA3 == [chunk_id |-> "c3", content |-> <<"config", " ", "file">>,
          similarity_score |-> 700, document_id |-> Str("docA"),
          metadata |-> [source_file |-> Str("a.md")]]
RawA4 == [chunk_id |-> "c4", content |-> <<"error", " ", "log">>,
          similarity_score |-> 600, document_id |-> Str("docA"),
          metadata |-> [source_file |-> Str("a.md")]]
RawB1 == [chunk_id |-> "c5", content |-> <<"fix", " ", "an", " ", "error">>,
          similarity_score |-> 500, document_id |-> Str("docB"),
          metadata |-> [source_file |-> Str("b.md")]]
RawLow == [chunk_id |-> "c6", content |-> <<"today">>,
           similarity_score |-> 50, document_id |-> Str("docB"),
           metadata |-> Undefined]

ResultLists == {<<>>, <<RawLow>>, <<RawB1>>, <<RawA3, RawA1, RawA2, RawA4, RawB1>>}
\* what the backend returns to the requests in flight together, and how
\* its call fails where requests of both kinds are
CallErrors == {[code |-> "ECONNREFUSED"], [code |-> "ECONNABORTED"]}
SearchLists == {<<RawLow>>, <<RawA3, RawA1, RawA2, RawA4, RawB1>>}
LlmLists == {<<RawLow>>, <<RawB1>>}

(***************************************************************************)
(* RAGController: the pure parts of the two query handlers.                *)
(***************************************************************************)
\* the check of req.body.query at the top of both handlers
ValidQuery(body) ==
  /\ "query" \in DOMAIN body
  /\ body.query # <<>>
  /\ Trim(body.query) # <<>>

\* rawResults.results.map(...) and rawResults.sources.map(...)
FormatResult(result) ==
  [id |-> result.chunk_id,
   content |-> result.content,
   score |-> result.similarity_score,
   source |-> result.metadata,
   source_file |-> JsOr(Field(result.metadata, "source_file"),
                        Field(result.metadata, "document_name"))]

FormatResults(results) == SeqMap(FormatResult, results)

Scores(formattedResults) == {formattedResults[i].score : i \in DOMAIN formattedResults}

MIN_SIMILARITY_THRESHOLD == 100
MIN_UNIQUE_DOCUMENTS == 1

\* a plausible slip: a maximum equal to the threshold is rejected too
GateRejectsThreshold(rawResults, formattedResults) ==
  IF rawResults = <<>>
  THEN [isValid |-> FALSE,
        reason |-> [t |-> "string", v |-> "No relevant documents found"]]
  ELSE LET maxScore == Max(Scores(formattedResults))
           uniqueDocuments ==
             {JsOr(Field(formattedResults[i].source, "source_file"),
                   Field(formattedResults[i].source, "document_id")) :
                i \in DOMAIN formattedResults}
       IN  IF maxScore <= MIN_SIMILARITY_THRESHOLD
           THEN [isValid |-> FALSE,
                 reason |-> [t |-> "string",
                             v |-> "Maximum similarity score below minimum threshold",
                             maxScore |-> maxScore,
                             threshold |-> MIN_SIMILARITY_THRESHOLD]]
           ELSE IF Cardinality(uniqueDocuments) < MIN_UNIQUE_DOCUMENTS
           THEN [isValid |-> FALSE,
                 reason |-> [t |-> "string",
                             v |-> "Number of unique documents below minimum requirement",
                             count |-> Cardinality(uniqueDocuments),
                             required |-> MIN_UNIQUE_DOCUMENTS]]
           ELSE [isValid |-> TRUE,
                 reason |-> [t |-> "string", v |-> "All quality checks passed"]]

\* a plausible slip: only results that name a file or a document count as
\* documents
GateCountsNamedDocuments(rawResults, formattedResults) ==
  IF rawResults = <<>>
  THEN [isValid |-> FALSE,
        reason |-> [t |-> "string", v |-> "No relevant documents found"]]
  ELSE LET maxScore == Max(Scores(formattedResults))
           uniqueDocuments ==
             {JsOr(Field(formattedResults[i].source, "source_file"),
                   Field(formattedResults[i].source, "document_id")) :
                i \in DOMAIN formattedResults} \ {Undefined}
       IN  IF maxScore < MIN_SIMILARITY_THRESHOLD
           THEN [isValid |-> FALSE,
                 reason |-> [t |-> "string",
                             v |-> "Maximum similarity score below minimum threshold",
                             maxScore |-> maxScore,
                             threshold |-> MIN_SIMILARITY_THRESHOLD]]
           ELSE IF Cardinality(uniqueDocuments) < MIN_UNIQUE_DOCUMENTS
           THEN [isValid |-> FALSE,
                 reason |-> [t |-> "string",
                             v |-> "Number of unique documents below minimum requirement",
                             count |-> Cardinality(uniqueDocuments),
                             required |-> MIN_UNIQUE_DOCUMENTS]]
           ELSE [isValid |-> TRUE,
                 reason |-> [t |-> "string", v |-> "All quality checks passed"]]

_validateRetrievalQuality(rawResults, formattedResults) ==
  IF rawResults = <<>>
  THEN [isValid |-> FALSE,
        reason |-> [t |-> "string", v |-> "No relevant documents found"]]
  ELSE LET maxScore == Max(Scores(formattedResults))
           uniqueDocuments ==
             {JsOr(Field(formattedResults[i].source, "source_file"),
                   Field(formattedResults[i].source, "document_id")) :
                i \in DOMAIN formattedResults}
       IN  IF maxScore < MIN_SIMILARITY_THRESHOLD
           THEN [isValid |-> FALSE,
                 reason |-> [t |-> "string",
                             v |-> "Maximum similarity score below minimum threshold",
                             maxScore |-> maxScore,
                             threshold |-> MIN_SIMILARITY_THRESHOLD]]
           ELSE IF Cardinality(uniqueDocuments) < MIN_UNIQUE_DOCUMENTS
           THEN [isValid |-> FALSE,
                 reason |-> [t |-> "string",
                             v |-> "Number of unique documents below minimum requirement",
                             count |-> Cardinality(uniqueDocuments),
                             required |-> MIN_UNIQUE_DOCUMENTS]]
           ELSE [isValid |-> TRUE,
                 reason |-> [t |-> "string", v |-> "All quality checks passed"]]

_calculateSimilarityRange(results) ==
  IF results = <<>> THEN [t |-> "string", v |-> "N/A"]
  ELSE [t |-> "string", v |-> "min - max",
        min |-> Min(Scores(results)), max |-> Max(Scores(results))]

_getCacheTTL(query) == IF SplitCount(query) > 10 THEN 300 ELSE 600

(***************************************************************************)
(* QueryProcessor: the result curator.  The field relevant_extracts of a   *)
(* curated result is left out of the model.                                *)
(***************************************************************************)
\* String.prototype.toLowerCase, on the tokens the model uses
LowerCase(tok) ==
  CASE tok = "Install" -> "install"
    [] tok = "API" -> "api"
    [] tok = "I" -> "i"
    [] tok = "TRUE" -> "true"
    [] OTHER -> tok

\* a token matched by /\b\w+\b/
IsWord(tok) == tok \notin {" ", ".", "!", "?", ","}

\* new Set(content.toLowerCase().match(/\b\w+\b/g) || [])
WordSet(content) == {LowerCase(content[i]) : i \in {j \in DOMAIN content : IsWord(content[j])}}

\* the quotient intersection.size / union.size as [num, den]; 0 for an empty union
_calculateContentSimilarity(content1, content2) ==
  LET words1 == WordSet(content1)
      words2 == WordSet(content2)
      union == words1 \cup words2
  IN  IF Cardinality(union) > 0
        THEN [num |-> Cardinality(words1 \cap words2), den |-> Cardinality(union)]
        ELSE [num |-> 0, den |-> 1]

\* a plausible slip: >= 0.9
AtLeastSimilar(sim) == 10 * sim.num >= 9 * sim.den

\* similarity > 0.9
TooSimilar(sim) == 10 * sim.num > 9 * sim.den

\* Array.prototype.sort((a, b) => b.similarity_score - a.similarity_score):
\* descending, and stable
InsertByScore(sorted, x) ==
  LET n == Cardinality({i \in DOMAIN sorted : sorted[i].similarity_score >= x.similarity_score})
  IN  SubSeq(sorted, 1, n) \o <<x>> \o SubSeq(sorted, n + 1, Len(sorted))

RECURSIVE SortByScore(_)
SortByScore(results) ==
  IF results = <<>> THEN <<>>
  ELSE InsertByScore(SortByScore(SubSeq(results, 1, Len(results) - 1)), results[Len(results)])

RECURSIVE DedupLoop(_, _)
DedupLoop(results, uniqueResults) ==
  IF results = <<>> THEN uniqueResults
  ELSE LET result == Head(results)
           isDuplicate ==
             \E i \in DOMAIN uniqueResults :
               TooSimilar(_calculateContentSimilarity(result.content, uniqueResults[i].content))
       IN  DedupLoop(Tail(results),
                     IF isDuplicate THEN uniqueResults ELSE Append(uniqueResults, result))

_deduplicateResults(results) ==
  IF Len(results) <= 1 THEN results ELSE DedupLoop(results, <<>>)

\* result.document_id || result.metadata?.source || "unknown"
DocIdOf(result) ==
  JsOr(JsOr(result.document_id, Field(result.metadata, "source")), Str("unknown"))

\* the keys of documentGroups in the order Object.entries lists them (the
\* order of first insertion: the keys of the model are no array indices
\* and no names of members of Object.prototype)
RECURSIVE GroupKeys(_, _)
GroupKeys(results, keys) ==
  IF results = <<>> THEN keys
  ELSE GroupKeys(Tail(results),
                 IF \E i \in DOMAIN keys : keys[i] = DocIdOf(Head(results))
                   THEN keys ELSE Append(keys, DocIdOf(Head(results))))

SelectSeq2(results, docId) == SelectSeq(results, LAMBDA x : DocIdOf(x) = docId)

maxChunksPerDocument == 2

RECURSIVE LimitGroups(_, _)
LimitGroups(results, keys) ==
  IF keys = <<>> THEN <<>>
  ELSE LET docResults == SelectSeq2(results, Head(keys))
       IN  SubSeq(docResults, 1, IF Len(docResults) < maxChunksPerDocument
                                   THEN Len(docResults) ELSE maxChunksPerDocument)
             \o LimitGroups(results, Tail(keys))

\* a plausible slip: the groups are not cut to maxChunksPerDocument
GroupWithoutLimit(results) == SortByScore(results)

_groupResultsByDocument(results) ==
  IF Len(results) <= 1 THEN results
  ELSE SortByScore(LimitGroups(results, GroupKeys(results, <<>>)))

EmptyObject == [k \in {} |-> Null]
Num(n) == [t |-> "number", n |-> n]

\* a plausible slip: the rank is the index of the array, which starts at 0
CuratedFromZero(result, index) ==
  [id |-> result.chunk_id,
   rank |-> index,
   score |-> result.similarity_score,
   content |-> result.content,
   source |-> [document_id |-> result.document_id,
               source_file |-> JsOr(Field(result.metadata, "source"), Str("unknown")),
               page |-> JsOr(Field(result.metadata, "page"), Null),
               section |-> JsOr(Field(result.metadata, "section"), Str("general")),
               chunk_order |-> JsOr(Field(result.metadata, "chunk_order"), Num(0))],
   citation |-> [t |-> "string", v |-> "[rank] Source: source",
                 rank |-> index + 1,
                 source |-> JsOr(Field(result.metadata, "source"), Str("Unknown Document"))],
   metadata |-> JsOr(result.metadata, EmptyObject)]

Curated(result, index) ==
  [id |-> result.chunk_id,
   rank |-> index + 1,
   score |-> result.similarity_score,
   content |-> result.content,
   source |-> [document_id |-> result.document_id,
               source_file |-> JsOr(Field(result.metadata, "source"), Str("unknown")),
               page |-> JsOr(Field(result.metadata, "page"), Null),
               section |-> JsOr(Field(result.metadata, "section"), Str("general")),
               chunk_order |-> JsOr(Field(result.metadata, "chunk_order"), Num(0))],
   citation |-> [t |-> "string", v |-> "[rank] Source: source",
                 rank |-> index + 1,
                 source |-> JsOr(Field(result.metadata, "source"), Str("Unknown Document"))],
   metadata |-> JsOr(result.metadata, EmptyObject)]

formatResultsWithCitations(results, originalQuery) ==
  IF results = <<>> THEN <<>>
  ELSE LET sortedResults == SortByScore(results)
           deduplicatedResults == _deduplicateResults(sortedResults)
           groupedResults == _groupResultsByDocument(deduplicatedResults)
       IN  [i \in DOMAIN groupedResults |-> Curated(groupedResults[i], i - 1)]

(***************************************************************************)
(* QueryProcessor: the preparation of a query.  A term is a sequence of    *)
(* tokens, as a query is; the field queryComplexity of the prepared query  *)
(* is left out of the model.                                               *)
(***************************************************************************)
\* this.queryExpansions, in the order Object.keys lists it
queryExpansions ==
  <<[term |-> "install", related |-> << <<"setup">>, <<"configuration">>, <<"getting", " ", "started">> >>],
    [term |-> "error", related |-> << <<"issue">>, <<"problem">>, <<"troubleshoot">>, <<"fix">> >>],
    [term |-> "config", related |-> << <<"configuration">>, <<"settings">>, <<"preferences">>, <<"options">> >>],
    [term |-> "api", related |-> << <<"interface">>, <<"endpoint">>, <<"call">>, <<"integration">> >>],
    [term |-> "auth", related |-> << <<"authentication">>, <<"authorization">>, <<"login">>, <<"security">> >>],
    [term |-> "performance", related |-> << <<"speed">>, <<"optimization">>, <<"efficiency">>, <<"benchmark">> >>],
    [term |-> "deploy", related |-> << <<"deployment">>, <<"release">>, <<"publish">>, <<"ship">> >>],
    [term |-> "upgrade", related |-> << <<"update">>, <<"migration">>, <<"version">>, <<"change">> >>],
    [term |-> "monitor", related |-> << <<"track">>, <<"observe">>, <<"watch">>, <<"metrics">>, <<"logging">> >>],
    [term |-> "backup", related |-> << <<"restore">>, <<"recovery">>, <<"archive">>, <<"save">> >>]>>

stopWords == {"the", "a", "an", "and", "or", "but", "in", "on", "at", "to", "for", "of", "with", "by"}

\* String.prototype.toLowerCase on a query
LowerCaseAll(q) == [i \in DOMAIN q |-> LowerCase(q[i])]

\* the expansion terms that are a proper part of a word of the model
Inside(tok) ==
  CASE tok = "configuration" -> {"config"}
    [] tok = "errors" -> {"error"}
    [] tok = "reinstall" -> {"install"}
    [] OTHER -> {}

\* rewrittenQuery.includes(term): the term is a word of the query or a
\* part of one (no term has whitespace or punctuation in it)
Includes(q, term) == \E i \in DOMAIN q : q[i] = term \/ term \in Inside(q[i])

\* String.prototype.split(/\s+/): the pieces between the runs of
\* whitespace, the empty ones at both ends included
RECURSIVE Split(_)
Split(q) ==
  IF \A i \in DOMAIN q : ~IsSpace(q[i]) THEN <<q>>
  ELSE LET i == CHOOSE j \in DOMAIN q :
                  IsSpace(q[j]) /\ \A k \in 1..(j - 1) : ~IsSpace(q[k])
       IN  <<SubSeq(q, 1, i - 1)>> \o Split(SubSeq(q, i + 1, Len(q)))

\* the related terms of every expansion term the query includes
RECURSIVE Expansions(_, _)
Expansions(q, table) ==
  IF table = <<>> THEN <<>>
  ELSE (IF Includes(q, Head(table).term) THEN Head(table).related ELSE <<>>)
         \o Expansions(q, Tail(table))

IsStopWord(word) == Len(word) = 1 /\ word[1] \in stopWords

\* a list of terms that keeps its repetitions
KeepRepeated(terms) == terms

\* [...new Set(terms)]: the first occurrence of each term, in order
RECURSIVE Uniq(_)
Uniq(terms) ==
  IF terms = <<>> THEN <<>>
  ELSE LET rest == Uniq(SubSeq(terms, 1, Len(terms) - 1))
           x == terms[Len(terms)]
       IN  IF \E i \in DOMAIN rest : rest[i] = x THEN rest ELSE Append(rest, x)

\* Array.prototype.join(" ")
RECURSIVE Join(_)
Join(terms) ==
  IF terms = <<>> THEN <<>>
  ELSE IF Len(terms) = 1 THEN terms[1]
  ELSE terms[1] \o <<" ">> \o Join(Tail(terms))

rewriteQuery(query) ==
  LET originalQuery == Trim(query)
      rewrittenQuery == LowerCaseAll(originalQuery)
      expansions == Expansions(rewrittenQuery, queryExpansions)
      words == SelectSeq(Split(rewrittenQuery), LAMBDA word : ~IsStopWord(word))
      allTerms == Uniq(words \o expansions)
  IN  [original |-> originalQuery,
       expanded |-> Join(allTerms),
       terms |-> allTerms,
       expansions |-> expansions]

MaxTopK == 20

prepareSearchQuery(query, topK) ==
  LET processed == rewriteQuery(query)
  IN  [originalQuery |-> processed.original,
       searchQuery |-> processed.expanded,
       topK |-> Min({topK + 2, MaxTopK}),
       expansionTerms |-> processed.expansions]

(***************************************************************************)
(* CacheService: the other public writers, and the cache on its own.  An   *)
(* argument with a default value is <<>> when the caller leaves it out     *)
(* and <<v>> when the caller gives v.                                      *)
(***************************************************************************)
\* crypto.createHash("sha256").update(input).digest("hex"): digests are told
\* apart by what was hashed
generateHash(input) == <<"sha256", input>>

QueryKey(query) == <<"query", generateHash(Trim(LowerCaseAll(query)))>>
EmbeddingKey(content) == <<"embedding", generateHash(content)>>
HealthKey(service) == <<"health", service>>

\* a parameter declared as p = d
ArgOr(arg, d) == IF arg = <<>> THEN d ELSE arg[1]

\* try { this._setCacheWithExpiration(key, value, ttl); return true }
StoreWithTtl(key, value, ttl) ==
  /\ SetState(_setCacheWithExpiration(CS, key, value, ttl))
  /\ written' = MapSet(written, key, Write(value, ttl, cacheTimeouts'[key], 0))
  /\ last' = SetTrace(key)

\* async cacheQueryResults(query, results, options = {})
cacheQueryResults(query, results, options) ==
  LET opts == ArgOr(options, EmptyObject)
      ttl == JsOr(Field(opts, "ttl"), Num(600))
  IN  StoreWithTtl(QueryKey(query), results, ttl.n)

\* async cacheDocumentEmbedding(documentId, content, embedding, ttl = 3600)
cacheDocumentEmbedding(documentId, content, embedding, ttl) ==
  StoreWithTtl(EmbeddingKey(content), embedding, ArgOr(ttl, 3600))

\* async cacheDocumentChunks(documentId, chunks, ttl = 1800)
cacheDocumentChunks(documentId, chunks, ttl) ==
  StoreWithTtl(DocChunksKey(documentId), chunks, ArgOr(ttl, 1800))

\* async cacheHealthStatus(service, status, ttl = 30); checkedAt, the wall
\* clock's time of the write, is a string no reader of the entry looks at
cacheHealthStatus(service, status, ttl) ==
  StoreWithTtl(HealthKey(service), [status |-> Bool(status), checkedAt |-> Str("now")],
               ArgOr(ttl, 30))

\* what the callers of the writers pass
CacheQueries == {QShort, <<" ", "Install", " ", "API">>}
QueryOptions == {<<>>, <<[ttl |-> Num(1)]>>}
Contents == {<<"install", " ", "api">>}
Services == {"retrieval_service"}
Statuses == BOOLEAN
EmbeddingTtls == {<<300>>}
ChunkTtls == {<<0>>}
HealthTtls == {<<30>>}

\* the four writers, by any caller
OtherWriters ==
  \/ \E query \in CacheQueries, options \in QueryOptions :
        cacheQueryResults(query, Str("v1"), options)
  \/ \E documentId \in DocIds, content \in Contents, ttl \in EmbeddingTtls :
        cacheDocumentEmbedding(documentId, content, Str("v1"), ttl)
  \/ \E documentId \in DocIds, ttl \in ChunkTtls :
        cacheDocumentChunks(documentId, Str("v1"), ttl)
  \/ \E service \in Services, status \in Statuses, ttl \in HealthTtls :
        cacheHealthStatus(service, status, ttl)

\* the cache used through its own interface, by any caller
CacheNext ==
  \/ \E w \in CacheWrites :
        cacheResult(SearchKey(QShort, 5), w.value, w.ttl) /\ UNCHANGED <<req, out, call>>
  \/ \E key \in ApiKeys : getCachedResult(key) /\ UNCHANGED <<req, out, call>>
  \/ \E documentId \in DocIds : invalidateDocumentCache(documentId) /\ UNCHANGED <<req, out, call>>
  \/ OtherWriters /\ UNCHANGED <<req, out, call>>
  \/ \E id \in LiveIds(timers) : FireTimer(id) /\ UNCHANGED <<req, out, call>>
  \/ Tick /\ UNCHANGED <<req, out, call>>

CacheSpec == CacheInit /\ [][CacheNext]_vars

\* the keys these callers write, and the timer each of them has pending
\* when it has an entry
CacheKeys == {SearchKey(QShort, 5), QueryKey(QShort), EmbeddingKey(QShort),
              DocChunksKey("d1"), HealthKey("retrieval_service")}
TimerIds == {<<key, 0>> : key \in CacheKeys}

\* The same operations with one call of each writer (expiry does not look
\* at the value; the arguments with a default value are left out), and the
\* event loop keeps running: time passes and due callbacks are run.
CacheLiveNext ==
  \/ cacheResult(SearchKey(QShort, 5), Str("v1"), 300) /\ UNCHANGED <<req, out, call>>
  \/ getCachedResult(SearchKey(QShort, 5)) /\ UNCHANGED <<req, out, call>>
  \/ \E documentId \in DocIds : invalidateDocumentCache(documentId) /\ UNCHANGED <<req, out, call>>
  \/ cacheQueryResults(QShort, Str("v1"), <<>>) /\ UNCHANGED <<req, out, call>>
  \/ cacheDocumentEmbedding("d1", QShort, Str("v1"), <<>>) /\ UNCHANGED <<req, out, call>>
  \/ cacheDocumentChunks("d1", Str("v1"), <<>>) /\ UNCHANGED <<req, out, call>>
  \/ cacheHealthStatus("retrieval_service", TRUE, <<>>) /\ UNCHANGED <<req, out, call>>
  \/ \E id \in LiveIds(timers) : FireTimer(id) /\ UNCHANGED <<req, out, call>>
  \/ Tick /\ UNCHANGED <<req, out, call>>

CacheLiveSpec ==
  /\ CacheInit
  /\ [][CacheLiveNext]_vars
  /\ WF_vars(Tick /\ UNCHANGED <<req, out, call>>)
  /\ \A id \in TimerIds : WF_vars(FireTimer(id) /\ UNCHANGED <<req, out, call>>)

(***************************************************************************)
(* RetrievalService: the call to the retrieval backend.  The call is sent  *)
(* when the handler reaches it and the handler resumes with the backend's  *)
(* data or with the error the client library raised.                       *)
(***************************************************************************)
\* the body of a successful answer to POST /api/v1/search
SearchData(sent, results) ==
  [query |-> sent.query, results |-> results, query_embedding |-> Str("embedding")]

\* the body of a successful answer to POST /api/v1/query
LlmData(sent, sources) ==
  [query |-> sent.query, answer |-> Str("answer"), sources |-> sources,
   query_embedding |-> Str("embedding")]

\* errors of the HTTP client: connection refused, no answer within the
\* timeout, an answer with an error status
BackendErrors ==
  {[code |-> "ECONNREFUSED"],
   [code |-> "ECONNABORTED"],
   [code |-> "ERR_BAD_RESPONSE", response |-> [status |-> 500, detail |-> Str("index not loaded")]],
   [code |-> "ERR_BAD_REQUEST", response |-> [status |-> 404, detail |-> Undefined]]}

\* a plausible slip: every failure of the call gets the same kind of message
RetrievalErrorAlike(kind, error) ==
  [t |-> "string",
   v |-> IF kind = "search" THEN "Search request failed: message"
                            ELSE "LLM query request failed: message",
   message |-> error.code]

\* the catch block of RetrievalService.searchDocuments / queryDocumentsWithLLM:
\* the message of the Error it throws
RetrievalError(kind, error) ==
  IF error.code = "ECONNREFUSED"
    THEN [t |-> "string", v |-> "Retrieval service is unavailable"]
  ELSE IF "response" \in DOMAIN error
    THEN [t |-> "string",
          v |-> IF kind = "search" THEN "Retrieval service error: status - detail"
                                   ELSE "LLM query service error: status - detail",
          status |-> error.response.status,
          detail |-> JsOr(error.response.detail, Str("Unknown error"))]
  ELSE [t |-> "string",
        v |-> IF kind = "search" THEN "Search request failed: message"
                                 ELSE "LLM query request failed: message",
        message |-> error.code]

(***************************************************************************)
(* RAGController: the two query handlers.                                  *)
(***************************************************************************)
\* request bodies as they reach the handlers
SearchBodies == {[query |-> QLong, user_id |-> Str("u1")], [query |-> <<>>]}
LlmBodies == {[query |-> QShort, top_k |-> 3]}

\* `search:${query}:${top_k}` and `llm:${query}:${top_k}`
CacheKeyOf(kind, query, top_k) ==
  IF kind = "search" THEN SearchKey(query, top_k) ELSE LlmKey(query, top_k)

\* what getCachedResult returns (of the handlers' use of the cache only
\* the writes leave a trace in last)
CachedResult(S, key) ==
  LET cachedValue == _getCache(S, key)
  IN  IF Truthy(cachedValue) THEN cachedValue ELSE Null

\* a plausible slip: the lookup is made but its result is not used
NeverHit(cachedResult) == FALSE

\* if (cachedResult)
IsHit(cachedResult) == Truthy(cachedResult)

\* a plausible slip: the response is cached whatever the verdict
AlwaysCache(validation) == TRUE

\* if (validation.isValid), before cacheService.cacheResult
ShouldCache(validation) == validation.isValid

\* the response object of searchDocuments (processing_time is left out)
SearchResponse(data) ==
  LET formattedResults == FormatResults(data.results)
      validation == _validateRetrievalQuality(data.results, formattedResults)
  IN  [t |-> "object",
       query |-> data.query,
       results |-> formattedResults,
       total_results |-> Len(formattedResults),
       retrieval_gated |-> ~validation.isValid,
       gating_reason |-> IF validation.isValid THEN Null ELSE validation.reason,
       similarity_score_range |-> _calculateSimilarityRange(formattedResults),
       query_embedding |-> data.query_embedding,
       retrieval_quality |-> validation]

\* the response object of queryDocumentsWithLLM (processing_time is left out)
LlmResponse(data) ==
  LET formattedResults == FormatResults(data.sources)
      validation == _validateRetrievalQuality(data.sources, formattedResults)
  IN  [t |-> "object",
       query |-> data.query,
       answer |-> IF validation.isValid THEN data.answer
                  ELSE Str("Unable to generate answer due to low-quality retrieval results. The retrieved documents do not meet the minimum quality thresholds."),
       sources |-> IF validation.isValid THEN formattedResults ELSE <<>>,
       total_sources |-> IF validation.isValid THEN Len(formattedResults) ELSE 0,
       retrieval_gated |-> ~validation.isValid,
       gating_reason |-> IF validation.isValid THEN Null ELSE validation.reason,
       similarity_score_range |-> IF validation.isValid
                                    THEN _calculateSimilarityRange(formattedResults)
                                    ELSE [t |-> "string", v |-> "N/A"],
       query_embedding |-> data.query_embedding,
       retrieval_quality |-> validation]

ResponseOf(kind, data) == IF kind = "search" THEN SearchResponse(data) ELSE LlmResponse(data)

\* a plausible slip: getCachedResult without its try/catch
LookupRethrows(S, key, throws) ==
  IF throws THEN Thrown ELSE CachedResult(S, key)

\* getCachedResult when the lookup inside its try block may throw: the
\* catch block logs and returns null
getCachedResultCaught(S, key, throws) ==
  IF throws THEN Null ELSE CachedResult(S, key)

\* what cacheResult returns: true after the write, false from its catch block
cacheResultCaught(throws) == Bool(~throws)

\* the answer a handler gave: looked, live and seen tell whether the cache
\* was consulted, whether the key held an entry then, and which; calls counts
\* the calls to the backend; data is what the backend returned and cause
\* the error that reached the handler's catch block; threw tells which
\* cache operations threw inside the cache, stored what cacheResult returned
Answer(r, kind, body, status, response) ==
  [status |-> status, kind |-> kind, body |-> body, response |-> response,
   looked |-> FALSE, live |-> FALSE, seen |-> Null, hit |-> FALSE, calls |-> 0,
   data |-> Null, cause |-> Null, threw |-> [lookup |-> FALSE, write |-> FALSE],
   stored |-> Null]

\* the response of the handler's catch block
Failure(kind, message) ==
  [error |-> Str(IF kind = "search" THEN "Search failed" ELSE "LLM query failed"),
   message |-> message]

\* results_count: cachedResult.results.length (sources for an LLM query),
\* which throws a TypeError when the entry has no such list
HitCount(kind, cachedResult) ==
  LET list == IF kind = "search" THEN "results" ELSE "sources"
  IN  IF list \in DOMAIN cachedResult THEN Num(Len(cachedResult[list])) ELSE Thrown

TypeError == [code |-> "TypeError"]

\* the handler up to its first await on input or output: the check of the
\* query and the cache lookup; on a miss it goes on to the call of the
\* backend, on a hit to the insert of the statistics with the entry in
\* hand (requests in flight are interchangeable, a new one takes the first
\* free slot); throws tells whether the lookup throws inside the cache
StartCore(r, kind, body, throws) ==
  /\ req[r].pc = "idle"
  /\ \A q \in Reqs : req[q].pc = "idle" => r <= q
  /\ last' = NoOp
  /\ UNCHANGED <<memoryCache, cacheTimeouts, timers, written>>
  /\ IF ~ValidQuery(body)
       THEN /\ ~throws
            /\ out' = Answer(r, kind, body, 400,
                        [error |-> Str("Query is required and must be a non-empty string")])
            /\ UNCHANGED req
       ELSE LET query == body.query
                user_id == Default(body, "user_id", Undefined)
                top_k == Default(body, "top_k", 5)
                cacheKey == CacheKeyOf(kind, query, top_k)
                cachedResult == getCachedResultCaught(CS, cacheKey, throws)
                seen == [looked |-> TRUE, live |-> MapHas(memoryCache, cacheKey),
                         seen |-> MapGet(memoryCache, cacheKey)]
            IN  IF cachedResult = Thrown
                  THEN /\ out' = [Answer(r, kind, body, 500, Failure(kind, Thrown)) EXCEPT
                                    !.looked = TRUE, !.live = seen.live,
                                    !.seen = seen.seen, !.cause = Thrown,
                                    !.threw.lookup = throws]
                       /\ UNCHANGED req
                ELSE IF IsHit(cachedResult) /\ HitCount(kind, cachedResult) = Thrown
                  THEN /\ out' = [Answer(r, kind, body, 500, Failure(kind, Str("TypeError"))) EXCEPT
                                    !.looked = TRUE, !.live = seen.live,
                                    !.seen = seen.seen, !.hit = TRUE,
                                    !.cause = TypeError]
                       /\ UNCHANGED req
                ELSE IF IsHit(cachedResult)
                  THEN /\ req' = [req EXCEPT ![r] =
                              [pc |-> "recording", kind |-> kind, cacheKey |-> cacheKey,
                               answer |-> [Answer(r, kind, body, 200, cachedResult) EXCEPT
                                             !.looked = TRUE, !.live = seen.live,
                                             !.seen = seen.seen, !.hit = TRUE]]]
                       /\ out' = NoOut
                ELSE /\ req' = [req EXCEPT ![r] =
                            [pc |-> "waiting", kind |-> kind, body |-> body,
                             cacheKey |-> cacheKey, live |-> seen.live,
                             seen |-> seen.seen,
                             sent |-> [query |-> query, user_id |-> user_id,
                                       top_k |-> top_k],
                             calls |-> 1, threw |-> throws]]
                     /\ out' = NoOut

StartWith(r, kind, body, throws) == StartCore(r, kind, body, throws) /\ UNCHANGED call

Start(r, kind, body) == StartWith(r, kind, body, FALSE)

\* the handler from the backend's answer to the insert of the statistics:
\* the results are formatted and judged, the response is built and, if it
\* passes, cached; throws tells whether the write throws inside the cache,
\* which is the failure of Map.prototype.set to make room for a key it does
\* not hold
ResumeWith(r, kind, data, throws) ==
  /\ req[r].pc = "waiting"
  /\ req[r].kind = kind
  /\ LET response == ResponseOf(kind, data)
         writes == ShouldCache(response.retrieval_quality)
     IN  /\ throws => (writes /\ ~MapHas(memoryCache, req[r].cacheKey))
         /\ IF writes /\ ~throws
              THEN /\ CacheWrite(req[r].cacheKey, response, _getCacheTTL(req[r].body.query))
                   /\ last' = SetTrace(req[r].cacheKey)
              ELSE /\ UNCHANGED <<memoryCache, cacheTimeouts, timers, written>>
                   /\ last' = NoOp
         /\ req' = [req EXCEPT ![r] =
                [pc |-> "recording", kind |-> kind, cacheKey |-> req[r].cacheKey,
                 answer |-> [Answer(r, kind, req[r].body, 200, response) EXCEPT
                               !.looked = TRUE, !.live = req[r].live, !.seen = req[r].seen,
                               !.calls = req[r].calls, !.data = data,
                               !.threw = [lookup |-> req[r].threw, write |-> throws],
                               !.stored = IF writes THEN cacheResultCaught(throws)
                                                    ELSE Null]]]
         /\ out' = NoOut
         /\ UNCHANGED call

Resume(r, kind, data) == ResumeWith(r, kind, data, FALSE)

\* the handler after await this._recordQueryAsync(...), which keeps a failure
\* of the insert to itself: res.json(cachedResult) or res.json(response)
Respond(r, kind) ==
  /\ req[r].pc = "recording"
  /\ req[r].kind = kind
  /\ out' = req[r].answer
  /\ req' = [req EXCEPT ![r] = Idle]
  /\ last' = NoOp
  /\ UNCHANGED <<memoryCache, cacheTimeouts, timers, written, call>>

\* a plausible slip: the failure is cached like a response
CatchCachesFailure(r, kind, error) ==
  /\ req[r].pc = "waiting"
  /\ req[r].kind = kind
  /\ out' = [Answer(r, kind, req[r].body, 500, Failure(kind, RetrievalError(kind, error))) EXCEPT
               !.looked = TRUE, !.live = req[r].live, !.seen = req[r].seen,
               !.calls = req[r].calls, !.cause = error, !.threw.lookup = req[r].threw]
  /\ req' = [req EXCEPT ![r] = Idle]
  /\ last' = NoOp
  /\ CacheWrite(req[r].cacheKey, Failure(kind, RetrievalError(kind, error)),
                _getCacheTTL(req[r].body.query))
  /\ UNCHANGED call

\* the catch block of the handler, reached when the backend call throws
Catch(r, kind, error) ==
  /\ req[r].pc = "waiting"
  /\ req[r].kind = kind
  /\ out' = [Answer(r, kind, req[r].body, 500, Failure(kind, RetrievalError(kind, error))) EXCEPT
               !.looked = TRUE, !.live = req[r].live, !.seen = req[r].seen,
               !.calls = req[r].calls, !.cause = error, !.threw.lookup = req[r].threw]
  /\ req' = [req EXCEPT ![r] = Idle]
  /\ last' = NoOp
  /\ UNCHANGED <<memoryCache, cacheTimeouts, timers, written, call>>

searchDocuments(r, body) == Start(r, "search", body)
searchDocumentsResume(r, results) == Resume(r, "search", SearchData(req[r].sent, results))
searchDocumentsCatch(r, error) == Catch(r, "search", error)
searchDocumentsRespond(r) == Respond(r, "search")

queryDocumentsWithLLM(r, body) == Start(r, "llm", body)
queryDocumentsWithLLMResume(r, sources) == Resume(r, "llm", LlmData(req[r].sent, sources))
queryDocumentsWithLLMCatch(r, error) == Catch(r, "llm", error)
queryDocumentsWithLLMRespond(r) == Respond(r, "llm")

Init == CacheInit

Next ==
  \/ \E r \in Reqs, body \in SearchBodies : searchDocuments(r, body)
  \/ \E r \in Reqs, results \in SearchLists : searchDocumentsResume(r, results)
  \/ \E r \in Reqs, error \in CallErrors : searchDocumentsCatch(r, error)
  \/ \E r \in Reqs : searchDocumentsRespond(r)
  \/ \E r \in Reqs, body \in LlmBodies : queryDocumentsWithLLM(r, body)
  \/ \E r \in Reqs, sources \in LlmLists : queryDocumentsWithLLMResume(r, sources)
  \/ \E r \in Reqs, error \in CallErrors : queryDocumentsWithLLMCatch(r, error)
  \/ \E r \in Reqs : queryDocumentsWithLLMRespond(r)
  \/ \E id \in LiveIds(timers) : Expire(id)
  \/ Pass

Spec == Init /\ [][Next]_vars

\* The search handler over a cache whose operations may throw: the lookup,
\* and the write of a key the cache does not hold.
searchDocumentsWith(r, body, throws) == StartWith(r, "search", body, throws)
searchDocumentsResumeWith(r, results, throws) ==
  ResumeWith(r, "search", SearchData(req[r].sent, results), throws)

FaultNext ==
  \/ \E r \in Reqs, body \in SearchBodies, throws \in BOOLEAN :
        searchDocumentsWith(r, body, throws)
  \/ \E r \in Reqs, results \in SearchLists, throws \in BOOLEAN :
        searchDocumentsResumeWith(r, results, throws)
  \/ \E r \in Reqs, error \in BackendErrors : searchDocumentsCatch(r, error)
  \/ \E r \in Reqs : searchDocumentsRespond(r)
  \/ \E id \in LiveIds(timers) : Expire(id)
  \/ Pass

FaultSpec == Init /\ [][FaultNext]_vars

(***************************************************************************)
(* The route POST /api/v1/query: the validation middleware, then the       *)
(* search handler on the body the middleware leaves.  A body is the JSON   *)
(* object the client sent: each of its values is a string (its tokens), a  *)
(* number, a boolean or null.  call keeps the body the client sent with    *)
(* the latest request.                                                     *)
(***************************************************************************)
\* the number of characters of a string (a run of whitespace is one space)
RECURSIVE StrLen(_)
StrLen(q) == IF q = <<>> THEN 0 ELSE Len(Head(q)) + StrLen(Tail(q))

\* schemas.query: the keys it knows, their rules and their defaults
QueryMin == 3
QueryMax == 1000
TopKMin == 1
TopKMax == 20
TopKDefault == 5
SchemaKeys == {"query", "userId", "topK", "stream", "useCache"}

\* Joi.number() on a string (convert is on by default): a string that reads
\* as a number, whitespace around it or not, becomes that number; a numeric
\* string is written one character a token, and signs and exponents are not
\* among the inputs
DigitChars == <<"0", "1", "2", "3", "4", "5", "6", "7", "8", "9">>
RECURSIVE ParseDigits(_)
ParseDigits(s) ==
  IF s = <<>> THEN 0
  ELSE ParseDigits(SubSeq(s, 1, Len(s) - 1)) * 10
         + (CHOOSE i \in DOMAIN DigitChars : DigitChars[i] = s[Len(s)]) - 1

\* /^\s*(?:\d+(?:\.\d*)?|\.\d+)\s*$/
IsNumeric(s) ==
  LET trimmed == Trim(s)
      IsDigit(ch) == \E i \in DOMAIN DigitChars : DigitChars[i] = ch
  IN  /\ \A i \in DOMAIN trimmed : IsDigit(trimmed[i]) \/ trimmed[i] = "."
      /\ \E i \in DOMAIN trimmed : IsDigit(trimmed[i])
      /\ Cardinality({i \in DOMAIN trimmed : trimmed[i] = "."}) <= 1

\* parseFloat of a numeric string, to the thousandth
ParseFloat(s) ==
  LET trimmed == Trim(s)
      dots == {i \in DOMAIN trimmed : trimmed[i] = "."}
      point == IF dots = {} THEN Len(trimmed) + 1 ELSE CHOOSE i \in dots : TRUE
      fraction == SubSeq(trimmed, point + 1, Len(trimmed)) \o <<"0", "0", "0">>
  IN  Decimal(ParseDigits(SubSeq(trimmed, 1, point - 1)), ParseDigits(SubSeq(fraction, 1, 3)))

ToNumber(v) == IF v.t = "string" /\ IsNumeric(v.s) THEN ParseFloat(v.s) ELSE v

\* Joi.boolean() on a string: "true" and "false", in any case, become the
\* boolean
ToBoolean(v) ==
  IF v.t # "string" THEN v
  ELSE IF LowerCaseAll(v.s) = <<"true">> THEN Bool(TRUE)
  ELSE IF LowerCaseAll(v.s) = <<"false">> THEN Bool(FALSE)
  ELSE v

\* error.details.map(detail => ({ field: detail.path.join("."), message }))
\* of schema.validate(req.body) with abortEarly: false: the keys in the
\* order of the schema, every rule a value breaks once its type is right
ValidationErrors(body) ==
  LET Has(k) == k \in DOMAIN body
      Detail(field, message) == [field |-> field, message |-> message]
      When(broken, field, message) == IF broken THEN <<Detail(field, message)>> ELSE <<>>
      topK == ToNumber(body.topK)
      OfBoolean(k, message) ==
        IF ~Has(k) THEN <<>> ELSE When(ToBoolean(body[k]).t # "boolean", k, message)
  IN  (IF ~Has("query") THEN <<Detail("query", "Query is required")>>
       ELSE IF body.query.t # "string"
         THEN <<Detail("query", "\"query\" must be a string")>>
       ELSE IF body.query.s = <<>>
         THEN <<Detail("query", "\"query\" is not allowed to be empty")>>
       ELSE When(StrLen(body.query.s) < QueryMin, "query",
                 "Query must be at least 3 characters long")
            \o When(StrLen(body.query.s) > QueryMax, "query",
                    "Query must be less than 1000 characters"))
      \o
      (IF ~Has("userId") THEN <<>>
       ELSE IF body.userId = Null THEN <<>>
       ELSE IF body.userId.t # "string"
         THEN <<Detail("userId", "\"userId\" must be a string")>>
       ELSE When(body.userId.s = <<>>, "userId", "\"userId\" is not allowed to be empty"))
      \o
      (IF ~Has("topK") THEN <<>>
       ELSE IF topK.t # "number" THEN <<Detail("topK", "\"topK\" must be a number")>>
       ELSE When(topK.frac # 0, "topK", "\"topK\" must be an integer")
            \o When(topK.n * 1000 + topK.frac < TopKMin * 1000, "topK",
                    "\"topK\" must be greater than or equal to 1")
            \o When(topK.n * 1000 + topK.frac > TopKMax * 1000, "topK",
                    "\"topK\" must be less than or equal to 20"))
      \o OfBoolean("stream", "\"stream\" must be a boolean")
      \o OfBoolean("useCache", "\"useCache\" must be a boolean")

\* the value of schema.validate with stripUnknown: true: the known keys of
\* the body, converted, and the defaults of the keys it lacks
Cleaned(body) ==
  LET defaults == [topK |-> Decimal(TopKDefault, 0), stream |-> Bool(FALSE),
                   useCache |-> Bool(TRUE)]
      keys == (DOMAIN body \cap SchemaKeys) \cup DOMAIN defaults
      Converted(k) ==
        IF k = "topK" THEN ToNumber(body[k])
        ELSE IF k \in {"stream", "useCache"} THEN ToBoolean(body[k])
        ELSE body[k]
  IN  [k \in keys |-> IF k \in DOMAIN body THEN Converted(k) ELSE defaults[k]]

\* validate(schemas.query) on req.body: error has the details, none when
\* the body passes
validate(body) == [error |-> ValidationErrors(body), value |-> Cleaned(body)]

\* a query of more than QueryMax characters
LongWord == "documentationdocumentationdocumentationdocumentation"
LongQuery == [i \in 1..(QueryMax \div Len(LongWord) + 1) |-> LongWord]

\* bodies a client may send: the count and the user under the names of the
\* schema, under the names the handler reads, values the schema converts,
\* whitespace only, and values that break each rule of the schema
ClientBodies ==
  {[query |-> Text(QShort)],
   [query |-> Text(QShort), topK |-> Decimal(10, 0), userId |-> Text(<<"u1">>)],
   [query |-> Text(QShort), top_k |-> Decimal(10, 0), user_id |-> Text(<<"u1">>)],
   [query |-> Text(QShort), topK |-> Text(<<" ", "1", "0">>), userId |-> Null,
    stream |-> Text(<<"TRUE">>), useCache |-> Bool(FALSE)],
   [query |-> Text(<<" ", " ", " ">>)],
   [query |-> Text(QShort), topK |-> Decimal(25, 500)],
   [query |-> Text(QShort), topK |-> Decimal(0, 0)],
   [query |-> Text(QShort), topK |-> Text(<<"ten">>)],
   [query |-> Text(<<"hi">>), userId |-> Text(<<>>)],
   [query |-> Decimal(5, 0), userId |-> Decimal(7, 0), topK |-> Null,
    stream |-> Decimal(1, 0), useCache |-> Text(<<"no">>)],
   [query |-> Text(<<>>)],
   [query |-> Text(LongQuery)],
   [top_k |-> Decimal(10, 0)]}

\* req.body = value, as the definitions of the handler read a body: the
\* query, a string by now, is its sequence of tokens
RequestBody(value) ==
  [k \in DOMAIN value |-> IF k = "query" THEN value[k].s ELSE value[k]]

\* app.post("/api/v1/query", validateQuery, ragController.searchDocuments)
postQuery(r, body) ==
  LET checked == validate(body)
  IN  /\ call' = [fn |-> "POST /api/v1/query", arg |-> body]
      /\ IF checked.error # <<>>
           THEN /\ req[r].pc = "idle"
                /\ \A q \in Reqs : req[q].pc = "idle" => r <= q
                /\ out' = Answer(r, "search", body, 400,
                                 [error |-> Str("Validation failed"), details |-> checked.error])
                /\ last' = NoOp
                /\ UNCHANGED <<memoryCache, cacheTimeouts, timers, written, req>>
           ELSE StartCore(r, "search", RequestBody(checked.value), FALSE)

RouteNext ==
  \/ \E r \in Reqs, body \in ClientBodies : postQuery(r, body)
  \/ \E r \in Reqs, results \in ResultLists : searchDocumentsResume(r, results)
  \/ \E r \in Reqs, error \in BackendErrors : searchDocumentsCatch(r, error)
  \/ \E r \in Reqs : searchDocumentsRespond(r)
  \/ \E id \in LiveIds(timers) : Expire(id)
  \/ Pass

RouteSpec == Init /\ [][RouteNext]_vars

(***************************************************************************)
(* RAGController: the ingestion of a document and the upload of a file,    *)
(* next to the search handler.  Each handler is cut at its awaits: the     *)
(* call of the retrieval backend, documentService.createDocument and       *)
(* documentService.updateDocumentStatus.  The chunks of a document that    *)
(* exists already are cached through cacheDocumentChunks.                  *)
(***************************************************************************)
\* typeof x (a record without a tag is an object of the program)
TypeOf(x) ==
  IF "t" \notin DOMAIN x THEN "object" ELSE IF x = Null THEN "object" ELSE x.t

\* bodies of POST /api/v1/documents as they reach ingestDocument, and
\* requests to POST /api/v1/upload-file as they reach uploadFile
IngestBodies ==
  {[content |-> Text(<<"release", " ", "notes">>), metadata |-> [title |-> Str("Notes")]],
   [content |-> Text(<<" ">>), metadata |-> [title |-> Str("Notes")]],
   [content |-> Num(5), metadata |-> [title |-> Str("Notes")]],
   [metadata |-> [title |-> Str("Notes")]],
   [content |-> Text(<<"release", " ", "notes">>), metadata |-> Null],
   [content |-> Text(<<"release", " ", "notes">>), metadata |-> Str("Notes")],
   [content |-> Text(<<"release", " ", "notes">>), metadata |-> [author |-> Str("me")]]}
UploadRequests ==
  {[file |-> [originalname |-> Str("notes.md"), buffer |-> [length |-> 11]],
    title |-> Str("Notes")],
   [file |-> [originalname |-> Str("notes.md"), buffer |-> [length |-> 11]],
    title |-> Str("")],
   [title |-> Str("Notes")]}

\* the checks at the top of ingestDocument and of uploadFile: the error of
\* the first one that fails, or null
IngestRefusal(kind, body) ==
  LET content == Default(body, "content", Undefined)
      metadata == Default(body, "metadata", Undefined)
      file == Default(body, "file", Undefined)
      title == Default(body, "title", Undefined)
  IN  IF kind = "ingest"
        THEN IF \/ ~Truthy(content)
                \/ TypeOf(content) # "string"
                \/ Len(Trim(content.s)) = 0
               THEN Str("Content is required and must be a non-empty string")
             ELSE IF ~Truthy(metadata) \/ TypeOf(metadata) # "object"
               THEN Str("Metadata is required and must be an object")
             ELSE IF ~Truthy(Field(metadata, "title"))
               THEN Str("Title is required in metadata")
             ELSE Null
        ELSE IF ~Truthy(file) THEN Str("File is required")
             ELSE IF ~Truthy(title) THEN Str("Title is required")
             ELSE Null

\* the answer of the retrieval backend to an ingestion or an upload
IngestData == [document_id |-> Str("b1"), chunks_processed |-> 2, status |-> Str("success")]

\* the id createDocument gives the record, `doc_${uuidv4()}`: an id no
\* other document has (a uuid is taken never to come twice).  Ids are told
\* apart only by being equal or not, so the new one is named after the
\* request that creates it: no other request in flight and no cached key
\* holds that name
NewDocNames == <<"doc_u1", "doc_u2", "doc_u3", "doc_u4">>
FreshDocId(r) == NewDocNames[r]

\* the response of a completed ingestion or upload
IngestResponse(kind, body, data, docRecord) ==
  IF kind = "ingest"
    THEN [message |-> Str("Document successfully ingested"),
          document_id |-> data.document_id,
          chunks_processed |-> data.chunks_processed,
          status |-> data.status,
          document_record_id |-> docRecord.document_id]
    ELSE [message |-> Str("File successfully uploaded and ingested"),
          document_id |-> data.document_id,
          chunks_processed |-> data.chunks_processed,
          status |-> data.status,
          original_filename |-> body.file.originalname,
          file_size |-> body.file.buffer.length]

\* the handler up to its await on the backend
IngestStart(r, kind, body) ==
  /\ req[r].pc = "idle"
  /\ \A q \in Reqs : req[q].pc = "idle" => r <= q
  /\ last' = NoOp
  /\ UNCHANGED <<memoryCache, cacheTimeouts, timers, written, call>>
  /\ IF IngestRefusal(kind, body) # Null
       THEN /\ out' = Answer(r, kind, body, 400, [error |-> IngestRefusal(kind, body)])
            /\ UNCHANGED req
       ELSE /\ req' = [req EXCEPT ![r] = [pc |-> "waiting", kind |-> kind, body |-> body,
                                          calls |-> 1]]
            /\ out' = NoOut

\* the backend has answered: the handler calls documentService.createDocument
\* (without a document_id) and awaits it
IngestResume(r, kind, data) ==
  /\ req[r].pc = "waiting"
  /\ req[r].kind = kind
  /\ req' = [req EXCEPT ![r] = [pc |-> "creating", kind |-> kind, body |-> req[r].body,
                                calls |-> req[r].calls, data |-> data]]
  /\ out' = NoOut
  /\ last' = NoOp
  /\ UNCHANGED <<memoryCache, cacheTimeouts, timers, written, call>>

\* createDocument has returned the record: the handler calls
\* documentService.updateDocumentStatus(docRecord.document_id, "completed")
\* and awaits it
IngestCreated(r, kind) ==
  /\ req[r].pc = "creating"
  /\ req[r].kind = kind
  /\ req' = [req EXCEPT ![r] = [pc |-> "updating", kind |-> kind, body |-> req[r].body,
                                calls |-> req[r].calls, data |-> req[r].data,
                                docRecord |-> [document_id |-> Str(FreshDocId(r))]]]
  /\ out' = NoOut
  /\ last' = NoOp
  /\ UNCHANGED <<memoryCache, cacheTimeouts, timers, written, call>>

\* updateDocumentStatus has returned: the cache of the document is
\* invalidated and the answer sent
IngestCompleted(r, kind) ==
  /\ req[r].pc = "updating"
  /\ req[r].kind = kind
  /\ invalidateDocumentCache(req[r].docRecord.document_id.v)
  /\ out' = [Answer(r, kind, req[r].body, 201,
                    IngestResponse(kind, req[r].body, req[r].data, req[r].docRecord)) EXCEPT
               !.calls = req[r].calls, !.data = req[r].data,
               !.stored = req[r].docRecord.document_id]
  /\ req' = [req EXCEPT ![r] = Idle]
  /\ UNCHANGED call

\* what makes the call of the backend fail (an error of the HTTP client:
\* connection refused, no answer in time, an answer with an error status)
\* and what makes a call of documentService fail
IngestErrors ==
  {[code |-> "ECONNREFUSED", message |-> Text(<<"connect", " ", "ECONNREFUSED">>)],
   [code |-> "ECONNABORTED", message |-> Text(<<"timeout", " ", "exceeded">>)],
   [code |-> "ERR_BAD_RESPONSE", message |-> Text(<<"Request", " ", "failed">>),
    response |-> [status |-> 503, data |-> [detail |-> Text(<<"Service", " ", "unavailable">>)]]],
   [code |-> "ERR_BAD_REQUEST", message |-> Text(<<"Request", " ", "failed">>),
    response |-> [status |-> 422, data |-> [detail |-> Undefined]]]}
DatabaseErrors ==
  {[thrownBy |-> "documentService", message |-> Text(<<"Connection", " ", "lost">>)]}
\* the failures of the backend an upload meets: a refused connection, no
\* answer in time, an answer whose detail says the service is unavailable
UploadErrors == {error \in IngestErrors : error.code # "ERR_BAD_REQUEST"}

\* the catch blocks of RetrievalService.ingestDocument and uploadFile: the
\* message of the Error they throw
IngestionError(kind, error) ==
  IF error.code = "ECONNREFUSED"
    THEN Text(<<"Retrieval", " ", "service", " ", "is", " ", "unavailable">>)
  ELSE IF Truthy(Field(error, "response"))
    THEN Text((IF kind = "ingest" THEN <<"Ingestion", " ", "service", " ", "error", ":", " ">>
                                  ELSE <<"File", " ", "upload", " ", "service", " ", "error", ":", " ">>)
              \o <<ToString(error.response.status), " ", "-", " ">>
              \o JsOr(error.response.data.detail, Text(<<"Unknown", " ", "error">>)).s)
  ELSE Text((IF kind = "ingest" THEN <<"Ingestion", " ", "request", " ", "failed", ":", " ">>
                                ELSE <<"File", " ", "upload", " ", "request", " ", "failed", ":", " ">>)
            \o error.message.s)

\* the Error that RetrievalService.ingestDocument or uploadFile throws to
\* the handler when its call fails with error
Rethrown(kind, error) ==
  [thrownBy |-> "retrievalService", message |-> IngestionError(kind, error), cause |-> error]

\* the answer at the end of uploadFile's catch block
UploadFailure(r, body, calls, error) ==
  [(IF Includes(error.message.s, "unavailable")
      THEN Answer(r, "upload", body, 503,
                  [error |-> Str("Upload service temporarily unavailable"),
                   message |-> Str("Please try again in a few moments")])
      ELSE Answer(r, "upload", body, 500,
                  [error |-> Str("Failed to upload file"), message |-> error.message])) EXCEPT
     !.calls = calls, !.cause = error]

\* the catch block of the two handlers, reached from the await that threw:
\* ingestDocument answers; uploadFile, if the body has a title (it has one
\* whenever an await was reached), first awaits
\* documentService.updateDocumentStatus(`temp_${Date.now()}`, "failed")
IngestCatch(r, kind, error) ==
  /\ req[r].pc \in (IF error.thrownBy = "retrievalService" THEN {"waiting"}
                                                            ELSE {"creating", "updating"})
  /\ req[r].kind = kind
  /\ IF kind = "ingest"
       THEN /\ out' = [Answer(r, kind, req[r].body, 500,
                              [error |-> Str("Document ingestion failed"),
                               message |-> error.message]) EXCEPT
                         !.calls = req[r].calls, !.cause = error]
            /\ req' = [req EXCEPT ![r] = Idle]
       ELSE IF Truthy(Default(req[r].body, "title", Undefined))
         THEN /\ req' = [req EXCEPT ![r] = [pc |-> "failing", kind |-> kind,
                                            body |-> req[r].body, calls |-> req[r].calls,
                                            error |-> error]]
              /\ out' = NoOut
       ELSE /\ out' = UploadFailure(r, req[r].body, req[r].calls, error)
            /\ req' = [req EXCEPT ![r] = Idle]
  /\ last' = NoOp
  /\ UNCHANGED <<memoryCache, cacheTimeouts, timers, written, call>>

\* the rest of uploadFile's catch block, once the update of the status has
\* returned or thrown (its failure is logged only)
UploadFailed(r) ==
  /\ req[r].pc = "failing"
  /\ out' = UploadFailure(r, req[r].body, req[r].calls, req[r].error)
  /\ req' = [req EXCEPT ![r] = Idle]
  /\ last' = NoOp
  /\ UNCHANGED <<memoryCache, cacheTimeouts, timers, written, call>>

ingestDocument(r, body) == IngestStart(r, "ingest", body)
ingestDocumentResume(r, data) == IngestResume(r, "ingest", data)
ingestDocumentCreated(r) == IngestCreated(r, "ingest")
ingestDocumentCompleted(r) == IngestCompleted(r, "ingest")
ingestDocumentCatch(r, error) == IngestCatch(r, "ingest", error)

uploadFile(r, request) == IngestStart(r, "upload", request)
uploadFileResume(r, data) == IngestResume(r, "upload", data)
uploadFileCreated(r) == IngestCreated(r, "upload")
uploadFileCompleted(r) == IngestCompleted(r, "upload")
uploadFileCatch(r, error) == IngestCatch(r, "upload", error)
uploadFileFailed(r) == UploadFailed(r)

IngestNext ==
  \/ \E r \in Reqs : searchDocuments(r, [query |-> QLong])
  \/ \E r \in Reqs : searchDocumentsResume(r, <<RawB1>>)
  \/ \E r \in Reqs : searchDocumentsRespond(r)
  \/ \E documentId \in DocIds :
        cacheDocumentChunks(documentId, Str("v1"), <<300>>) /\ out' = NoOut /\ UNCHANGED <<req, call>>
  \/ \E r \in Reqs, body \in IngestBodies : ingestDocument(r, body)
  \/ \E r \in Reqs : ingestDocumentResume(r, IngestData)
  \/ \E r \in Reqs : ingestDocumentCreated(r)
  \/ \E r \in Reqs : ingestDocumentCompleted(r)
  \/ \E r \in Reqs, error \in IngestErrors : ingestDocumentCatch(r, Rethrown("ingest", error))
  \/ \E r \in Reqs, error \in DatabaseErrors : ingestDocumentCatch(r, error)
  \/ \E r \in Reqs, request \in UploadRequests : uploadFile(r, request)
  \/ \E r \in Reqs : uploadFileResume(r, IngestData)
  \/ \E r \in Reqs : uploadFileCreated(r)
  \/ \E r \in Reqs : uploadFileCompleted(r)
  \/ \E r \in Reqs, error \in UploadErrors : uploadFileCatch(r, Rethrown("upload", error))
  \/ \E r \in Reqs, error \in DatabaseErrors : uploadFileCatch(r, error)
  \/ \E r \in Reqs : uploadFileFailed(r)
  \/ \E id \in LiveIds(timers) : Expire(id)
  \/ Pass

IngestSpec == Init /\ [][IngestNext]_vars

(***************************************************************************)
(* The functions of the controller and of the curator called on their own, *)
(* on every input of a bounded set.                                        *)
(***************************************************************************)
SeqsUpTo(S, n) == UNION {[1..k -> S] : k \in 0..n}

\* raw results around the threshold of the quality check
RawNear == [chunk_id |-> "c7", content |-> <<"release", " ", "notes">>,
            similarity_score |-> 99, document_id |-> Str("docB"),
            metadata |-> [source_file |-> Str("b.md")]]
RawEdge == [chunk_id |-> "c8", content |-> <<"release", " ", "plan">>,
            similarity_score |-> 100, document_id |-> Str("docB"),
            metadata |-> [source_file |-> Str("b.md")]]

GatePool == {RawLow, RawNear, RawEdge, RawB1}
\* a result whose metadata names a document but no file
RawD == [chunk_id |-> "c13", content |-> <<"release", " ", "date">>,
         similarity_score |-> 300, document_id |-> Str("docD"),
         metadata |-> [document_id |-> Str("docD")]]

\* raw results for the curator: a copy of c1 under another chunk id, a
\* result filed under metadata.source only, and two results without any
\* document whose identical content has no word in it
RawA1b == [chunk_id |-> "c1b", content |-> <<"install", " ", "the", " ", "api">>,
           similarity_score |-> 850, document_id |-> Str("docA"),
           metadata |-> [source_file |-> Str("a.md")]]
RawS == [chunk_id |-> "c9", content |-> <<"deploy", " ", "guide">>,
         similarity_score |-> 700, document_id |-> Null,
         metadata |-> [source |-> Str("guide.md")]]
RawU1 == [chunk_id |-> "c10", content |-> <<"?", " ", "!">>,
          similarity_score |-> 400, document_id |-> Undefined,
          metadata |-> Undefined]
RawU2 == [chunk_id |-> "c11", content |-> <<"?", " ", "!">>,
          similarity_score |-> 300, document_id |-> Undefined,
          metadata |-> Undefined]
RawU3 == [chunk_id |-> "c12", content |-> <<"!">>,
          similarity_score |-> 200, document_id |-> Null,
          metadata |-> Null]

\* lists for the quality check: around the threshold, and results without
\* metadata or without a file in it
GateInputs ==
  SeqsUpTo(GatePool, MaxResults)
    \cup {<<RawU1>>, <<RawU1, RawU2>>, <<RawU3, RawLow>>, <<RawD>>, <<RawD, RawU1, RawB1>>}

CuratorPool == {RawA1, RawA1b, RawA2, RawA3, RawB1, RawLow, RawS, RawU1, RawU2}

\* the first n words of a fixed text
Vocabulary == <<"alpha", "beta", "gamma", "delta", "epsilon", "zeta",
                "eta", "theta", "iota", "kappa", "lambda">>
RECURSIVE ContentOf(_)
ContentOf(n) == IF n = 0 THEN <<>> ELSE IF n = 1 THEN <<Vocabulary[1]>>
                ELSE ContentOf(n - 1) \o <<" ", Vocabulary[n]>>

\* a result of document docC with the first n words as content
RawC(chunk_id, n, score) ==
  [chunk_id |-> chunk_id, content |-> ContentOf(n), similarity_score |-> score,
   document_id |-> Str("docC"), metadata |-> [source_file |-> Str("c.md")]]

\* a result of document docC with the n-th word as content
RawTopic(chunk_id, n, score) ==
  [chunk_id |-> chunk_id, content |-> <<Vocabulary[n]>>, similarity_score |-> score,
   document_id |-> Str("docC"), metadata |-> [source_file |-> Str("c.md")]]

\* five results of one document with different contents
FiveOfOneDocument ==
  <<RawTopic("t1", 1, 900), RawTopic("t2", 2, 800), RawTopic("t3", 3, 700),
    RawTopic("t4", 4, 600), RawTopic("t5", 5, 500)>>

\* pairs of results sharing 2 of 4, 9 of 10 and 10 of 11 words
HalfShared == <<RawC("h4", 4, 900), RawC("h2", 2, 800)>>
NineOfTen == <<RawC("n10", 10, 900), RawC("n9", 9, 800)>>
TenOfEleven == <<RawC("e10", 10, 800), RawC("e11", 11, 900)>>

CuratorInputs ==
  SeqsUpTo(CuratorPool, MaxResults)
    \cup {FiveOfOneDocument, HalfShared, NineOfTen, TenOfEleven,
          <<RawA3, RawA1, RawA2, RawA4, RawB1>>,
          <<RawU3, RawA1, RawU2, RawU1>>, <<RawU3>>}

\* a query of n words, with or without whitespace before and after
RECURSIVE Words(_)
Words(n) == IF n = 0 THEN <<>> ELSE IF n = 1 THEN <<"word">>
            ELSE Words(n - 1) \o <<" ", "word">>
QueryOf(n, lead, trail) ==
  IF n = 0 THEN (IF lead \/ trail THEN <<" ">> ELSE <<>>)
  ELSE (IF lead THEN <<" ">> ELSE <<>>) \o Words(n) \o (IF trail THEN <<" ">> ELSE <<>>)
Queries == {QueryOf(n, lead, trail) : n \in 0..MaxWords, lead \in BOOLEAN, trail \in BOOLEAN}

\* queries for rewriteQuery: the example of the documentation, upper case
\* and whitespace at the ends, a term inside a longer word, a repeated word,
\* stop words only, punctuation, no word at all
QExample ==
  <<"how", " ", "do", " ", "I", " ", "fix", " ", "an", " ", "error", " ",
    "in", " ", "the", " ", "config">>
RewriteQueries ==
  {QExample, QShort, QLong,
   <<" ", "Install", " ", "the", " ", "API", " ">>,
   <<"configuration", " ", "errors">>,
   <<"reinstall", " ", "fix", " ", "fix", " ", "error">>,
   <<"the", " ", "and">>,
   <<"deploy", ",", " ", "the", " ", "backup", "?">>,
   <<"word">>, <<>>, <<" ">>}

CallOf(fn, arg) == [fn |-> fn, arg |-> arg, done |-> FALSE, ret |-> Null]

Calls ==
  {CallOf("_validateRetrievalQuality", rawResults) : rawResults \in GateInputs}
    \cup {CallOf("_getCacheTTL", query) : query \in Queries}
    \cup {CallOf("formatResultsWithCitations", results) : results \in CuratorInputs}
    \cup {CallOf("rewriteQuery", query) : query \in RewriteQueries}

Return(fn, ret) ==
  /\ call.fn = fn
  /\ ~call.done
  /\ call' = [call EXCEPT !.done = TRUE, !.ret = ret]
  /\ UNCHANGED <<memoryCache, cacheTimeouts, timers, last, written, req, out>>

\* this._validateRetrievalQuality(rawResults.results, formattedResults), with
\* the formatted results the handlers pass
validateRetrievalQualityCall ==
  Return("_validateRetrievalQuality",
         _validateRetrievalQuality(call.arg, FormatResults(call.arg)))

\* this._getCacheTTL(query)
getCacheTTLCall == Return("_getCacheTTL", _getCacheTTL(call.arg))

\* queryProcessor.formatResultsWithCitations(results, originalQuery)
formatResultsWithCitationsCall ==
  Return("formatResultsWithCitations", formatResultsWithCitations(call.arg, QShort))

\* queryProcessor.rewriteQuery(query)
rewriteQueryCall == Return("rewriteQuery", rewriteQuery(call.arg))

PureInit ==
  /\ memoryCache = EmptyMap
  /\ cacheTimeouts = EmptyMap
  /\ timers = {}
  /\ last = NoOp
  /\ written = EmptyMap
  /\ req = [r \in Reqs |-> Idle]
  /\ out = NoOut
  /\ call \in Calls

PureNext ==
  \/ validateRetrievalQualityCall
  \/ getCacheTTLCall
  \/ formatResultsWithCitationsCall
  \/ rewriteQueryCall

PureSpec == PureInit /\ [][PureNext]_vars

(***************************************************************************)
(* The cache: claims C1 to C6.                                             *)
(***************************************************************************)
KeysWithTimer == {t.key : t \in timers}

\* C1: in every reachable state of the cache, whatever the sequence of sets,
\* gets, deletes and timer expirations, each key has at most one pending
\* expiration timer in the runtime.
C1_OneTimerPerKey ==
  \A k \in KeysWithTimer : Cardinality(TimersOf(timers, k)) <= 1

\* a set has just replaced an entry whose timer was still pending
C1_Witness ==
  /\ last.op = "set"
  /\ last.had
  /\ Cardinality(TimersOf(timers, last.key)) = 1

\* C2: an entry leaves the cache only by an explicit delete of its key or by
\* the timer its own write installed, and that timer fires no earlier than
\* the write's ttl after the write; a timer of an earlier write or of a
\* deleted entry never removes it.  Until then the entry holds the value of
\* the latest write and get returns it (for the values get can return at
\* all, see C3).
C2_RemovedOnlyByOwnTimer ==
  [][ /\ \A k \in DOMAIN memoryCache :
           ~MapHas(memoryCache', k) =>
              \/ last'.op = "delete" /\ last'.key = k
              \/ /\ last'.op = "fire" /\ last'.key = k
                 /\ MapHas(written, k)
                 /\ last'.timer = written[k].id
                 /\ written[k].age >= written[k].ttlMs
      /\ \A k \in DOMAIN written' :
           /\ MapHas(memoryCache', k)
           /\ memoryCache'[k] = written'[k].value
           /\ (last'.op = "get" /\ last'.key = k /\ Truthy(written'[k].value))
                 => last'.ret = written'[k].value
    ]_vars

\* the key was overwritten before its first ttl was over, that ttl has now
\* passed since the overwrite, and a get still returns the second value
C2_Witness ==
  /\ last.op = "get"
  /\ MapHas(written, last.key)
  /\ written[last.key].prevLeft > 0
  /\ written[last.key].age >= written[last.key].prevLeft
  /\ written[last.key].age < written[last.key].ttlMs
  /\ last.ret = Str("v2")

\* C3: a get issued immediately after set(k, v, ttl) returns v, for every key,
\* every payload and every ttl.
C3_GetAfterSet ==
  [][ (last.op = "set" /\ last'.op = "get" /\ last'.key = last.key)
        => (MapHas(written, last.key) /\ last'.ret = written[last.key].value) ]_vars

\* C4: when the timer of an entry fires, the key has no entry and no timer
\* left and a get of a key without entry returns absent; and with the event
\* loop running, every entry that is not overwritten is eventually removed:
\* time and again the key has no entry or has just been written.
C4_ExpiresAfterTtl ==
  /\ [][ /\ last'.op = "fire" =>
              /\ ~MapHas(memoryCache', last'.key)
              /\ ~MapHas(cacheTimeouts', last'.key)
              /\ TimersOf(timers', last'.key) = {}
         /\ (last'.op = "get" /\ ~MapHas(memoryCache, last'.key)) => last'.ret = Null
       ]_vars
  /\ \A key \in CacheKeys :
        []<>(~MapHas(memoryCache, key) \/ (last.op = "set" /\ last.key = key))

\* the timer of an entry that was never overwritten has fired
C4_Witness ==
  /\ last.op = "fire"
  /\ last.had
  /\ ~MapHas(memoryCache, last.key)

\* C5: get never returns a value at a time later than the expiration instant
\* (write time + ttl) of the entry it returns.
C5_NeverPastExpiration ==
  (last.op = "get" /\ last.ret # Null) => ~last.overdue

\* C6: delete(k) returns true exactly when k had an entry, leaves k without
\* entry and without timer (in the map and in the runtime), and a get right
\* after it returns absent.
C6_Delete ==
  [][ /\ last'.op = "delete" =>
          /\ last'.flag = MapHas(memoryCache, last'.key)
          /\ ~MapHas(memoryCache', last'.key)
          /\ ~MapHas(cacheTimeouts', last'.key)
          /\ TimersOf(timers', last'.key) = {}
      /\ (last.op = "delete" /\ last'.op = "get" /\ last'.key = last.key)
            => last'.ret = Null
    ]_vars

\* a delete has removed an entry whose timer was pending
C6_Witness ==
  /\ last.op = "delete"
  /\ last.flag
  /\ last.had
  /\ TimersOf(timers, last.key) = {}

(***************************************************************************)
(* The query handlers: claims C7 to C10.                                   *)
(***************************************************************************)
\* the key of the request that was answered last
OutKey == CacheKeyOf(out.kind, out.body.query, Default(out.body, "top_k", 5))

\* the list of results a response carries
ResultList(kind, response) == IF kind = "search" THEN response.results ELSE response.sources

\* the list of raw results the backend returned
RawList(kind, data) == IF kind = "search" THEN data.results ELSE data.sources

\* the request answered last missed the cache and got the backend's data
AnsweredMiss == out.status = 200 /\ out.looked /\ ~out.hit

\* C7: every response stored in the cache by searchDocuments or
\* queryDocumentsWithLLM has retrieval_gated = false and a valid verdict.
C7_NoGatedResponseCached ==
  \A k \in DOMAIN memoryCache :
    /\ memoryCache[k].retrieval_gated = FALSE
    /\ memoryCache[k].retrieval_quality.isValid

\* a request was answered with a gated response and its key holds no entry
C7_Witness ==
  /\ AnsweredMiss
  /\ out.response.retrieval_gated
  /\ ~MapHas(memoryCache, OutKey)

\* C8: a request whose key holds an entry at the lookup makes no call to the
\* backend and is answered with that entry as it is; a request whose key
\* holds none makes exactly one call, also when the call fails.
C8_BackendCalls ==
  /\ (out.status # 0 /\ out.looked) =>
        /\ out.live => (out.calls = 0 /\ out.status = 200 /\ out.response = out.seen)
        /\ ~out.live => out.calls = 1
  /\ \A r \in Reqs : req[r].pc = "waiting" => (~req[r].live /\ req[r].calls = 1)

\* one request was answered from the cache without a call while another,
\* on a key without entry, has made its one call, and: a call failed and
\* the request was answered after that one call
C8_Witness ==
  /\ out.status = 200 /\ out.hit /\ out.calls = 0
  /\ \E r \in Reqs : req[r].pc = "waiting" /\ req[r].calls = 1

C8_WitnessFailure ==
  out.status = 500 /\ out.looked /\ out.calls = 1

\* C9: when the verdict on the backend's results is invalid, both handlers
\* answer with retrieval_gated = true, a reason and an empty result list;
\* when it is valid, with retrieval_gated = false and no reason.
C9_GatedResponseShape ==
  AnsweredMiss =>
    LET raw == RawList(out.kind, out.data)
        verdict == _validateRetrievalQuality(raw, FormatResults(raw))
    IN  /\ ~verdict.isValid =>
             /\ out.response.retrieval_gated
             /\ out.response.gating_reason # Null
             /\ ResultList(out.kind, out.response) = <<>>
        /\ verdict.isValid =>
             /\ ~out.response.retrieval_gated
             /\ out.response.gating_reason = Null

\* C10: on a miss, searchDocuments returns the curator's output for the raw
\* results, judges that curated sequence, and total_results is at most the
\* number of raw results.
C10_SearchReturnsCurated ==
  (AnsweredMiss /\ out.kind = "search") =>
    LET curated == formatResultsWithCitations(out.data.results, out.body.query)
    IN  /\ out.response.results = curated
        /\ out.response.retrieval_quality = _validateRetrievalQuality(curated, curated)
        /\ out.response.total_results <= Len(out.data.results)

(***************************************************************************)
(* The query handlers and the functions they rest on: claims C11 to C20.   *)
(***************************************************************************)
\* C11: on every cache miss the backend is sent the query prepared by
\* prepareSearchQuery: its expanded searchQuery, and min(top_k + 2, 20) as
\* top_k.
C11_BackendGetsPreparedQuery ==
  \A r \in Reqs :
    req[r].pc = "waiting" =>
      LET prepared == prepareSearchQuery(req[r].body.query,
                                         Default(req[r].body, "top_k", 5))
      IN  /\ req[r].sent.top_k = prepared.topK
          /\ req[r].sent.query = prepared.searchQuery

\* C12: a request whose backend call fails writes nothing to the cache:
\* neither the step that sends the call nor the step that answers the
\* failure changes the entries, the recorded timers or the pending timers,
\* and no failure is stored in the cache or served from it.
C12_FailureWritesNothing ==
  /\ [][ ((\E r \in Reqs : req[r].pc = "idle" /\ req'[r].pc = "waiting")
            \/ (out'.status = 500 /\ out' # out))
          => UNCHANGED <<memoryCache, cacheTimeouts, timers>> ]_vars
  /\ [](\A k \in DOMAIN memoryCache : "error" \notin DOMAIN memoryCache[k])
  /\ []((out.status = 200 /\ out.hit) => "error" \notin DOMAIN out.response)

\* a call has timed out while the cache held an entry with its timer
C12_Witness ==
  /\ out.status = 500
  /\ out.calls = 1
  /\ out.cause = [code |-> "ECONNABORTED"]
  /\ DOMAIN memoryCache # {}
  /\ timers # {}

\* C13: when a cache operation throws inside the cache, nothing reaches the
\* caller: a lookup that throws counts as a miss (one call to the backend,
\* and the answer is the response built from the backend's data, or the
\* backend's own failure), a write that throws makes cacheResult return
\* false, stores nothing and leaves the response as it is.
C13_CacheFailureIsMiss ==
  /\ [](/\ (out.status # 0 /\ out.threw.lookup) =>
            /\ ~out.hit
            /\ out.calls = 1
            /\ out.status = 200 => out.response = ResponseOf(out.kind, out.data)
            /\ out.status # 200 => (out.status = 500 /\ out.cause \in BackendErrors)
        /\ (out.status # 0 /\ out.threw.write) =>
            /\ out.status = 200
            /\ out.stored = Bool(FALSE)
            /\ out.response = ResponseOf(out.kind, out.data)
        /\ \A r \in Reqs : (req[r].pc = "waiting" /\ req[r].threw) => req[r].calls = 1)
  /\ [][ \A r \in Reqs :
          (req[r].pc = "waiting" /\ req'[r].pc = "recording" /\ req'[r].answer.threw.write)
            => /\ UNCHANGED <<memoryCache, cacheTimeouts, timers>>
               /\ ~MapHas(memoryCache', req[r].cacheKey) ]_vars

\* the lookup of a key that held an entry threw, and the request was
\* answered from the backend's data
C13_Witness ==
  /\ out.status = 200
  /\ out.threw.lookup
  /\ out.live
  /\ out.calls = 1

\* the write of a valid response threw, and the response was returned
C13_WitnessWrite ==
  /\ out.status = 200
  /\ out.threw.write
  /\ out.response.retrieval_quality.isValid

\* the call of fn has returned
Returned(fn) == call.fn = fn /\ call.done

\* C14: _validateRetrievalQuality rejects an empty list with the reason that
\* no documents were found; it rejects a list whose maximum score is below
\* 0.1, naming the maximum and the threshold; it accepts every other list,
\* a maximum of exactly 0.1 included.
C14_QualityVerdict ==
  Returned("_validateRetrievalQuality") =>
    LET rawResults == call.arg
        scores == {rawResults[i].similarity_score : i \in DOMAIN rawResults}
    IN  IF rawResults = <<>>
          THEN /\ ~call.ret.isValid
               /\ call.ret.reason.v = "No relevant documents found"
        ELSE IF \A x \in scores : x < 100
          THEN /\ ~call.ret.isValid
               /\ call.ret.reason.v = "Maximum similarity score below minimum threshold"
               /\ call.ret.reason.maxScore \in scores
               /\ \A x \in scores : x <= call.ret.reason.maxScore
               /\ call.ret.reason.threshold = 100
        ELSE call.ret.isValid

\* a single result with a score of exactly 0.1 was accepted
C14_Witness ==
  /\ Returned("_validateRetrievalQuality")
  /\ call.arg = <<RawEdge>>
  /\ call.ret.isValid

\* a single result with score 0.05 was rejected, one with 0.5 accepted
C14_WitnessLow ==
  /\ Returned("_validateRetrievalQuality")
  /\ call.arg = <<RawLow>>
  /\ ~call.ret.isValid

\* the words of a query: the maximal runs of characters that are no whitespace
WordCount(query) == Len(SelectSeq(Split(query), LAMBDA piece : piece # <<>>))

\* C15: the ttl of a query is 300 if it has more than 10 words and 600
\* otherwise.
C15_TtlByWordCount ==
  Returned("_getCacheTTL") =>
    call.ret = IF WordCount(call.arg) > 10 THEN 300 ELSE 600

\* the Jaccard similarity of the lowercase word sets of two contents is
\* above 0.9 (two contents without words have no similarity)
JaccardAbove90(content1, content2) ==
  LET words1 == WordSet(content1)
      words2 == WordSet(content2)
  IN  /\ words1 \cup words2 # {}
      /\ 10 * Cardinality(words1 \cap words2) > 9 * Cardinality(words1 \cup words2)

\* the members of a sequence at the positions of K, in order
Sub(sq, K) == SelectSeq([i \in DOMAIN sq |-> [at |-> i, x |-> sq[i]]], LAMBDA e : e.at \in K)
Picked(sq, K) == [i \in DOMAIN Sub(sq, K) |-> Sub(sq, K)[i].x]

\* the results that survive the deduplication of a list, by score
Survivors(results) == _deduplicateResults(SortByScore(results))

\* C16: no two curated results have a Jaccard similarity above 0.9, and a
\* result is dropped as a duplicate only if its similarity with a kept
\* result that precedes it by score is above 0.9.
C16_NoNearDuplicates ==
  Returned("formatResultsWithCitations") =>
    LET sorted == SortByScore(call.arg)
    IN  /\ \A i, j \in DOMAIN call.ret :
             i # j => ~JaccardAbove90(call.ret[i].content, call.ret[j].content)
        /\ \E K \in SUBSET DOMAIN sorted :
             /\ Survivors(call.arg) = Picked(sorted, K)
             /\ \A i \in DOMAIN sorted \ K :
                  \E j \in K :
                    /\ j < i
                    /\ sorted[j].similarity_score >= sorted[i].similarity_score
                    /\ JaccardAbove90(sorted[i].content, sorted[j].content)

\* two results sharing half of their words were both kept, and of two
\* sharing 10 of 11 words one was dropped
C16_Witness ==
  /\ Returned("formatResultsWithCitations")
  /\ call.arg = HalfShared
  /\ Len(call.ret) = 2

C16_WitnessDropped ==
  /\ Returned("formatResultsWithCitations")
  /\ call.arg = TenOfEleven
  /\ Len(call.ret) = 1

\* C17: of two results with identical content exactly one is kept, the one
\* that sorts first by score.
C17_IdenticalContentKeptOnce ==
  (/\ Returned("formatResultsWithCitations")
   /\ Len(call.arg) = 2
   /\ call.arg[1].content = call.arg[2].content)
    => /\ Len(call.ret) = 1
       /\ call.ret[1].id = SortByScore(call.arg)[1].chunk_id

\* the document a curated result is filed under
CuratedDocId(c) ==
  JsOr(JsOr(c.source.document_id, Field(c.metadata, "source")), Str("unknown"))

\* C18: of every document (document_id, else metadata.source, else
\* "unknown") the curated results are the 2 highest-scored results that
\* survive the deduplication, or the only one.
C18_TwoPerDocument ==
  Returned("formatResultsWithCitations") =>
    \A d \in {DocIdOf(call.arg[i]) : i \in DOMAIN call.arg} :
      LET group == SelectSeq(Survivors(call.arg), LAMBDA x : DocIdOf(x) = d)
          shown == SelectSeq(call.ret, LAMBDA c : CuratedDocId(c) = d)
          n == IF Len(group) < 2 THEN Len(group) ELSE 2
      IN  /\ Len(shown) = n
          /\ \A i \in 1..n :
               /\ shown[i].id = group[i].chunk_id
               /\ shown[i].score = group[i].similarity_score
               /\ \A j \in (n + 1)..Len(group) :
                    group[j].similarity_score <= shown[i].score

\* five results of one document gave the two with scores 0.9 and 0.8
C18_Witness ==
  /\ Returned("formatResultsWithCitations")
  /\ call.arg = FiveOfOneDocument
  /\ [i \in DOMAIN call.ret |-> call.ret[i].score] = <<900, 800>>

\* C19: the ranks of the curated results are 1, 2, ..., N in the order of
\* the output, the scores do not increase with the rank, and the number in
\* a citation is the rank.
C19_RanksAndScores ==
  Returned("formatResultsWithCitations") =>
    /\ \A i \in DOMAIN call.ret :
         /\ call.ret[i].rank = i
         /\ call.ret[i].citation.rank = call.ret[i].rank
    /\ \A i, j \in DOMAIN call.ret :
         i < j => call.ret[i].score >= call.ret[j].score

\* a list that was not in the order of its scores gave three ranked results
C19_Witness ==
  /\ Returned("formatResultsWithCitations")
  /\ Len(call.arg) >= 3
  /\ call.arg[1].similarity_score < call.arg[2].similarity_score
  /\ Len(call.ret) = 3
  /\ call.ret[1].score > call.ret[3].score

\* C20: the citation of a curated result names the source file recorded in
\* metadata.source_file of the raw result, or "Unknown Document" when there
\* is none, under the number of its rank, and source.source_file carries
\* the same file name.
C20_CitationNamesSourceFile ==
  Returned("formatResultsWithCitations") =>
    \A i \in DOMAIN call.ret :
      LET source_file == Field(call.ret[i].metadata, "source_file")
      IN  /\ call.ret[i].citation.rank = call.ret[i].rank
          /\ call.ret[i].citation.source = JsOr(source_file, Str("Unknown Document"))
          /\ Truthy(source_file) => call.ret[i].source.source_file = source_file

(***************************************************************************)
(* The preparation of a query and the order of curated results: claims     *)
(* C21 to C23.                                                             *)
(***************************************************************************)
\* the whitespace-delimited tokens of the first n tokens of a query
RECURSIVE PiecesUpTo(_, _)
PiecesUpTo(q, n) ==
  IF n = 0 THEN <<>>
  ELSE LET before == PiecesUpTo(q, n - 1)
       IN  IF IsSpace(q[n]) THEN before
           ELSE IF n > 1 /\ ~IsSpace(q[n - 1])
                  THEN [before EXCEPT ![Len(before)] = Append(@, q[n])]
                  ELSE Append(before, <<q[n]>>)
Pieces(q) == PiecesUpTo(q, Len(q))

\* the related terms of the trigger words from the i-th on that occur in q
RECURSIVE RelatedFrom(_, _)
RelatedFrom(q, i) ==
  IF i > Len(queryExpansions) THEN <<>>
  ELSE LET rest == RelatedFrom(q, i + 1)
       IN  IF Includes(q, queryExpansions[i].term)
             THEN queryExpansions[i].related \o rest ELSE rest

\* where a term comes first in a sequence of terms
FirstAt(all, term) == Min({i \in DOMAIN all : all[i] = term})

\* terms joined by single spaces, from the last term backwards
RECURSIVE Spaced(_, _)
Spaced(terms, n) ==
  IF n = 0 THEN <<>>
  ELSE IF n = 1 THEN terms[1]
  ELSE Spaced(terms, n - 1) \o <<" ">> \o terms[n]

\* C21: the terms of a rewritten query (one that is not empty after
\* trimming) are the whitespace-delimited tokens of the lowercased query
\* that are no stop words, followed by the related terms of every trigger
\* word that occurs in the lowercased query, in the order of the mapping,
\* each term once at the place it comes first; expanded is the terms joined
\* by single spaces.
C21_RewrittenTerms ==
  (Returned("rewriteQuery") /\ Trim(call.arg) # <<>>) =>
    LET q == LowerCaseAll(call.arg)
        kept == SelectSeq(Pieces(q), LAMBDA piece : ~(Len(piece) = 1 /\ piece[1] \in stopWords))
        all == kept \o RelatedFrom(q, 1)
        terms == call.ret.terms
    IN  /\ {terms[i] : i \in DOMAIN terms} = {all[i] : i \in DOMAIN all}
        /\ \A i, j \in DOMAIN terms : i < j => FirstAt(all, terms[i]) < FirstAt(all, terms[j])
        /\ call.ret.expanded = Spaced(terms, Len(terms))

\* a query with a stop word, a repeated word and a trigger word inside a
\* longer word was rewritten, and a related term was already a word
C21_Witness ==
  /\ Returned("rewriteQuery")
  /\ call.arg = <<"configuration", " ", "errors">>
  /\ call.ret.terms[1] = <<"configuration">>
  /\ Len(call.ret.terms) = 9
  /\ Len(call.ret.expansions) = 8

\* a repeated word is kept once and "fix", related to "error", is not added
\* to the word "fix"
C21_WitnessRepeated ==
  /\ Returned("rewriteQuery")
  /\ call.arg = <<"reinstall", " ", "fix", " ", "fix", " ", "error">>
  /\ Len(call.ret.terms) = 9

\* C22: the terms of a rewritten query contain no stop word; the terms of
\* "how do I fix an error in the config" include the related terms of
\* "error" and of "config" and none of "how", "do", "i", "in", "the".
C22_NoStopWords ==
  Returned("rewriteQuery") =>
    LET terms == {call.ret.terms[i] : i \in DOMAIN call.ret.terms}
    IN  /\ \A word \in stopWords : <<word>> \notin terms
        /\ call.arg = QExample =>
             /\ \A word \in {"issue", "problem", "troubleshoot", "fix", "configuration",
                             "settings", "preferences", "options"} : <<word>> \in terms
             /\ \A word \in {"how", "do", "i", "in", "the"} : <<word>> \notin terms

\* C23: curated results of equal score come in the order they had in the
\* raw input, also after the groups of the documents were concatenated
\* and sorted again.
C23_TiesKeepInputOrder ==
  Returned("formatResultsWithCitations") =>
    \A i, j \in DOMAIN call.ret :
      (i < j /\ call.ret[i].score = call.ret[j].score) =>
        \E p, q \in DOMAIN call.arg :
          /\ p < q
          /\ call.arg[p].chunk_id = call.ret[i].id
          /\ call.arg[q].chunk_id = call.ret[j].id

(***************************************************************************)
(* Failures of the backend and results without metadata: claims C24, C25.  *)
(***************************************************************************)
\* C24: a failure of the retrieval backend reaches the caller of the search
\* handler as a failure (status 500, error "Search failed", no results),
\* whose message tells a refused connection from an error the backend
\* reported: the latter carries the backend's status and detail, the
\* former neither.
C24_FailureDistinguishable ==
  (out.status = 500 /\ out.kind = "search") =>
    LET message == out.response.message
    IN  /\ out.cause \in BackendErrors
        /\ DOMAIN out.response = {"error", "message"}
        /\ out.response.error = Str("Search failed")
        /\ out.cause.code = "ECONNREFUSED" =>
             message = Str("Retrieval service is unavailable")
        /\ "response" \in DOMAIN out.cause =>
             /\ message.v = "Retrieval service error: status - detail"
             /\ message.status = out.cause.response.status
             /\ Truthy(out.cause.response.detail) => message.detail = out.cause.response.detail
             /\ ~Truthy(out.cause.response.detail) => message.detail = Str("Unknown error")
        /\ "response" \notin DOMAIN out.cause =>
             /\ message.v # "Retrieval service error: status - detail"
             /\ "status" \notin DOMAIN message

\* the backend answered a search with an error status and a detail
C24_Witness ==
  /\ out.status = 500
  /\ out.kind = "search"
  /\ out.cause.code = "ERR_BAD_RESPONSE"
  /\ out.response.message.status = 500
  /\ out.response.message.detail = Str("index not loaded")

\* the backend refused the connection of a search
C24_WitnessRefused ==
  /\ out.status = 500
  /\ out.kind = "search"
  /\ out.cause.code = "ECONNREFUSED"
  /\ out.response.message = Str("Retrieval service is unavailable")

\* the raw result a curated result was made of
RawOf(curated) == CHOOSE raw \in {call.arg[i] : i \in DOMAIN call.arg} : raw.chunk_id = curated.id

NoMetadata(raw) == raw.metadata \in {Undefined, Null}
NoDocument(raw) == NoMetadata(raw) /\ raw.document_id \in {Undefined, Null}

\* C25: a raw result without metadata does not make the curator throw: if
\* it is emitted, its source_file is "unknown", its section "general", its
\* chunk_order 0, its page null, its metadata {} and the source of its
\* citation "Unknown Document"; results that have no document_id either
\* are grouped under the key "unknown", so that at most two of them are
\* emitted.
C25_MissingMetadataDefaults ==
  Returned("formatResultsWithCitations") =>
    /\ \A i \in DOMAIN call.ret :
         NoMetadata(RawOf(call.ret[i])) =>
           /\ call.ret[i].source.source_file = Str("unknown")
           /\ call.ret[i].source.section = Str("general")
           /\ call.ret[i].source.chunk_order = Num(0)
           /\ call.ret[i].source.page = Null
           /\ call.ret[i].metadata = EmptyObject
           /\ call.ret[i].citation.source = Str("Unknown Document")
    /\ \A i \in DOMAIN call.arg : NoDocument(call.arg[i]) => DocIdOf(call.arg[i]) = Str("unknown")
    /\ Cardinality({i \in DOMAIN call.ret : NoDocument(RawOf(call.ret[i]))}) <= maxChunksPerDocument

\* of three results without metadata and without document_id, two were
\* emitted with the defaults, next to a result that has both
C25_Witness ==
  /\ Returned("formatResultsWithCitations")
  /\ call.arg = <<RawU3, RawA1, RawU2, RawU1>>
  /\ Len(call.ret) = 3
  /\ call.ret[2].id = "c10"
  /\ call.ret[2].source.source_file = Str("unknown")
  /\ call.ret[3].id = "c11"
  /\ call.ret[3].metadata = EmptyObject

(***************************************************************************)
(* Entries and timers, concurrent requests: claims C26, C27.               *)
(***************************************************************************)
\* C26: in every reachable state of the cache the keys that have an entry
\* are the keys that have a pending timer, and the keys whose timer the
\* cache has on record: no entry is without a timer and no timer is
\* pending for a key without entry.
C26_EntriesHaveTimers ==
  /\ DOMAIN memoryCache = KeysWithTimer
  /\ DOMAIN cacheTimeouts = DOMAIN memoryCache
  /\ \A k \in DOMAIN cacheTimeouts : \E t \in timers : t.id = cacheTimeouts[k] /\ t.key = k

\* a timer has fired and removed its entry while another key kept its
\* entry and its timer
C26_Witness ==
  /\ last.op = "fire"
  /\ ~MapHas(memoryCache, last.key)
  /\ TimersOf(timers, last.key) = {}
  /\ \E k \in DOMAIN memoryCache : k # last.key /\ Cardinality(TimersOf(timers, k)) = 1

\* the request in slot r missed the cache and has a response that passed
\* the quality check, which it wrote when it got the backend's data
Wrote(r) ==
  /\ req[r].pc = "recording"
  /\ ~req[r].answer.hit
  /\ req[r].answer.response.retrieval_quality.isValid

\* C27: requests for one key that are in flight together and all miss each
\* make one call to the backend, and each whose response passes the
\* quality check writes it: right after a write the key holds the
\* response of that request, whatever another request wrote meanwhile, and
\* in every state a key that has an entry has exactly one pending timer,
\* the one of the latest write, due that write's ttl after that write.
C27_LastWriteWins ==
  /\ [][ \A r \in Reqs :
          (req[r].pc = "waiting" /\ req'[r].pc = "recording") =>
            LET key == req[r].cacheKey
                answer == req'[r].answer
            IN  /\ answer.calls = 1
                /\ answer.response.retrieval_quality.isValid =>
                     /\ MapHas(memoryCache', key)
                     /\ memoryCache'[key] = answer.response
                     /\ \A t \in TimersOf(timers', key) :
                          t.remaining = _getCacheTTL(answer.body.query) * 1000 ]_vars
  /\ [](\A k \in DOMAIN memoryCache :
         /\ Cardinality(TimersOf(timers, k)) = 1
         /\ MapHas(written, k)
         /\ memoryCache[k] = written[k].value
         /\ \A t \in TimersOf(timers, k) :
              /\ t.id = written[k].id
              /\ t.id = cacheTimeouts[k]
              /\ t.remaining = written[k].ttlMs - written[k].age)

\* a request found no entry at its lookup, another request wrote one
\* while it waited for the backend, and its own write has replaced that
\* entry and its timer
C27_Witness ==
  \E r \in Reqs :
    /\ Wrote(r)
    /\ ~req[r].answer.live
    /\ last.op = "set"
    /\ last.key = req[r].cacheKey
    /\ last.had
    /\ MapHas(written, req[r].cacheKey)
    /\ written[req[r].cacheKey].age = 0
    /\ memoryCache[req[r].cacheKey] = req[r].answer.response
    /\ Cardinality(TimersOf(timers, req[r].cacheKey)) = 1

\* a request whose response was gated has left the entry that a concurrent
\* request wrote
C27_WitnessGated ==
  /\ AnsweredMiss
  /\ ~out.live
  /\ ~out.response.retrieval_quality.isValid
  /\ MapHas(memoryCache, OutKey)

(***************************************************************************)
(* The route of a query, the quality check, the ingestion of a document:   *)
(* claims C28 to C30.                                                      *)
(***************************************************************************)
\* the result count and the user id a client put in the body it sent
ClientCount(body) ==
  IF "topK" \in DOMAIN body THEN ToNumber(body.topK).n
  ELSE IF "top_k" \in DOMAIN body THEN ToNumber(body.top_k).n ELSE TopKDefault
ClientUser(body) ==
  IF "userId" \in DOMAIN body THEN body.userId
  ELSE IF "user_id" \in DOMAIN body THEN body.user_id ELSE Undefined

\* C28: when a request that the validation middleware admitted goes on to
\* the backend, the result count in its cache key and in the call to the
\* backend is the count the client put in the body, and the user id in
\* the call is the client's.
C28_ClientCountUsed ==
  [][ \A r \in Reqs :
        (req[r].pc = "idle" /\ req'[r].pc = "waiting") =>
          /\ req'[r].cacheKey = SearchKey(call'.arg.query.s, ClientCount(call'.arg))
          /\ req'[r].sent.top_k = ClientCount(call'.arg)
          /\ req'[r].sent.user_id = ClientUser(call'.arg) ]_vars

\* C29: a list that is not empty and has a score of at least 0.1 passes
\* the quality check whatever its results say about their source: the
\* check of the number of documents never fails, as results that name
\* neither a file nor a document count as one document.
C29_DocumentCheckNeverFails ==
  Returned("_validateRetrievalQuality") =>
    /\ call.ret.reason.v # "Number of unique documents below minimum requirement"
    /\ (\E i \in DOMAIN call.arg : call.arg[i].similarity_score >= MIN_SIMILARITY_THRESHOLD) =>
         /\ call.ret.isValid
         /\ call.ret.reason.v = "All quality checks passed"

\* two results without metadata passed the check
C29_Witness ==
  /\ Returned("_validateRetrievalQuality")
  /\ call.arg = <<RawU1, RawU2>>
  /\ call.ret.isValid

\* the document whose cache the ingestion or upload answered last invalidated
IngestedKey == DocChunksKey(out.stored.v)

\* C30: the invalidation at the end of an ingestion or an upload removes
\* the entry and the timer of the key doc_chunks:<document_id> and nothing
\* else: every other entry, record and pending timer is as before, the
\* cached responses to queries included; and a query whose key has an
\* entry is answered with that entry.
C30_InvalidationFrame ==
  [][ /\ (out'.status = 201 /\ \E r \in Reqs : req[r].pc = "updating" /\ req'[r].pc = "idle") =>
           LET key == DocChunksKey(out'.stored.v)
           IN  /\ last'.op = "delete"
               /\ last'.key = key
               /\ ~MapHas(memoryCache', key)
               /\ ~MapHas(cacheTimeouts', key)
               /\ TimersOf(timers', key) = {}
               /\ DOMAIN memoryCache' = DOMAIN memoryCache \ {key}
               /\ \A k \in DOMAIN memoryCache' :
                    /\ memoryCache'[k] = memoryCache[k]
                    /\ cacheTimeouts'[k] = cacheTimeouts[k]
               /\ timers' = timers \ TimersOf(timers, key)
      /\ (out'.status = 200 /\ out'.kind = "search" /\ out'.looked /\ out'.live) =>
           (out'.hit /\ out'.response = out'.seen)
    ]_vars

\* an ingestion has answered after invalidating the cache of its new
\* document, while the cached response to a query and the cached chunks of
\* another document stayed, each with its timer
C30_Witness ==
  /\ out.status = 201
  /\ last.op = "delete"
  /\ last.key = IngestedKey
  /\ ~MapHas(memoryCache, IngestedKey)
  /\ \E k \in DOMAIN memoryCache :
       k[1] = "search" /\ Cardinality(TimersOf(timers, k)) = 1
  /\ \E k \in DOMAIN memoryCache :
       k[1] = "doc_chunks" /\ Cardinality(TimersOf(timers, k)) = 1

\* the same after an upload
C30_WitnessUpload ==
  /\ C30_Witness
  /\ out.kind = "upload"
  /\ out.response.file_size = 11

\* a query was answered from its cached response while an ingestion, whose
\* record is created, is about to invalidate the cache of its document
C30_WitnessServed ==
  /\ out.status = 200
  /\ out.kind = "search"
  /\ out.hit
  /\ \E r \in Reqs : req[r].pc = "updating"

====
